---- MODULE Spec2Model ----
(***************************************************************************)
(* Local Coordination Core of mcp-kit: the lock-file election of            *)
(* src/server/local/node-instance/index.ts (InstanceManager and             *)
(* coordinateInstanceRole) and the start-up path of                         *)
(* src/server/server-starter.ts (startMcpServer), run by several operating  *)
(* system processes against one lock path.                                  *)
(*                                                                          *)
(* Granularity: one step per system call on the lock path (open 'wx',       *)
(* write through the descriptor, existsSync, readFileSync, unlink) and one  *)
(* step per control-plane call (the HTTP answer is chosen by the            *)
(* environment).  Steps of different processes interleave freely.           *)
(***************************************************************************)
EXTENDS Integers, Sequences, FiniteSets, TLC

\* ------------------------------------------------------------------ bounds
NumProcs == 2
\* the values Date.now() takes
MaxTime == 2
\* the longest timeout passed to waitForPort, in polling intervals
MaxPolls == 3
\* the listening sockets one ProxyManager may have open at once
MaxListeners == 2

\* command-line arguments given to one start
MaxArgs == 2
\* invocations of the shutdown handler in one process
MaxSignals == 2
\* the largest retry budget given to findAvailablePort
MaxRetries == 3

Procs == 1 .. NumProcs
\* a PID that no process of this host has (999999 in the scenarios)
DeadPid == NumProcs + 1
Versions == {"1.0.0", "2.0.0"}
Null == "null"
\* opts.port ?? 8989, and the number in the default lock file's name
DefaultPort == 8989
\* the port the port manager scenarios start from
TestPort == 19876
\* createShutdownHandler: setTimeout(..., 1000) before process.exit(0)
CleanupMs == 1000
\* waitForPort: setTimeout(r, 300) between two bind attempts
PollMs == 300
\* waitForPort: timeoutMs ?? 10000
DefaultTimeoutMs == 10000

\* ------------------------------------------------------------- lock records
\* InstanceLock {pid, version, timestamp}; the timestamp is not read by any
\* code path and is left out.
LockRec(pid, version) == [isNull |-> FALSE, pid |-> pid, version |-> version]
NullLock == [isNull |-> TRUE, pid |-> 0, version |-> ""]

\* what is at the lock path
FileAbsent == [kind |-> "absent", pid |-> 0, version |-> ""]
FileEmpty == [kind |-> "empty", pid |-> 0, version |-> ""]
FileGarbage == [kind |-> "garbage", pid |-> 0, version |-> ""]
FileRecord(pid, version) == [kind |-> "record", pid |-> pid, version |-> version]
\* a directory occupies the lock path
FileDir == [kind |-> "dir", pid |-> 0, version |-> ""]

NoResult == [status |-> "none", reason |-> "", version |-> ""]
MainResult(reason, prev) == [status |-> "main", reason |-> reason, version |-> prev]
ProxyResult(mainV) == [status |-> "proxy", reason |-> "existing-main", version |-> mainV]
ErrorResult(msg) == [status |-> "error", reason |-> msg, version |-> ""]

VARIABLES
    file,            \* content of the lock path
    fdLinked,        \* fdLinked[p]: p's open descriptor still names the file at the path
    entry,           \* "coordinate" | "startMcpServer": the start-up routine p runs
    desiredVersion,  \* options.desiredVersion, resolved
    removeStaleLock, \* options.removeStaleLock
    pc,              \* position in the start-up routine
    sub,             \* position inside the InstanceManager call in progress
    role,            \* InstanceManager.role
    lock,            \* InstanceManager.lock
    inspectedLock,   \* coordinateInstanceRole: inspectedLock
    mainVersion,     \* coordinateInstanceRole: mainVersion
    result,          \* what the start-up routine returned or threw
    calls,           \* history: the InstanceManager calls p has issued, in order
    answers,         \* history: the value each of those calls returned
    fileAtReturn,    \* history: the lock path when p's routine returned
    winners,         \* history: exclusive creates that succeeded since the last unlink
    liveRemoved,     \* history: processes that unlinked a live process's lock
    proxyPort,       \* InstanceManager.proxyPort (0: null)
    errno,           \* err.code of the failure tryBecomeMain last caught ("none": no failure)
    lastCall,        \* the manager method last called directly, its answer, what it met
    dirWritable,     \* the lock path's directory accepts new entries
    opts,            \* startMcpServer: cliOptions and config of each process
    stage,           \* startMcpServer: how far each process has got
    lockFiles,       \* content of each lock file, by the port number in its name
    listener,        \* the process listening on each TCP port (0: none)
    routes,          \* the (method, path) pairs each process's app answers
    proxy,           \* listen and target port of each process's reverse proxy
    blockedBy,       \* the pid in the lock that made tryBecomeMain answer false
    served,          \* the last request each server handled, and its status
    got,             \* the last control-plane call of each manager, its answer
    unit             \* the component exercised on its own: a record of its fields

\* the coordination variables, the InstanceManager's other fields, the server's
coordVars == <<file, fdLinked, entry, desiredVersion, removeStaleLock, pc, sub, role, lock,
               inspectedLock, mainVersion, result, calls, answers, fileAtReturn, winners,
               liveRemoved>>
mgrVars == <<proxyPort, errno, lastCall, dirWritable>>
srvVars == <<opts, stage, lockFiles, listener, routes, proxy, blockedBy, served, got>>

\* A component exercised on its own (the lock record store, waitForPort, the
\* ProxyManager with its proxy application, the stdio bridge) keeps its fields
\* in unit; the specifications of the start-up routines leave unit Idle.
libVars == <<unit>>
Idle == [of |-> "none"]

\* what a component's steps leave alone
unitFrame == <<coordVars, mgrVars, srvVars>>

\* lock record store: what is at the lock path, as text or JSON
disk == unit.disk
\* lock record store: this.lock
held == unit.held
\* lock record store: the last call, what it met and how it ended
ret == unit.ret
\* lock record store: the record written last and still on disk
wrote == unit.wrote
\* lock record store: process.pid and what the version getter returns
me == unit.me

\* waitForPort: Date.now(), in ms
clock == unit.clock
\* waitForPort: start
waitStart == unit.waitStart
\* waitForPort: the argument, [set, ms]
timeoutMs == unit.timeoutMs
\* waitForPort: another socket listens on the target port
portHeld == unit.portHeld
\* waitForPort: position in the loop
wpc == unit.wpc
\* waitForPort: "none" | "true" | "false"
waitResult == unit.waitResult
\* waitForPort: bind attempts made
attempts == unit.attempts
\* waitForPort: bind attempts that succeeded
successes == unit.successes
\* waitForPort: Date.now() at the last bind attempt
lastAttempt == unit.lastAttempt
\* waitForPort: every two successive attempts were >= PollMs apart
gapsOk == unit.gapsOk
\* waitForPort: the port was held at some moment of the call
everHeld == unit.everHeld

\* ProxyManager: this.server, as the port it listens on; 0 is null
pmServer == unit.pmServer
\* ProxyManager: this.metadata
pmMetadata == unit.pmMetadata
\* ProxyManager: the listening sockets its start calls have opened
listeners == unit.listeners
\* ProxyManager: "ok", or how a start that could not bind ended
pmState == unit.pmState
\* ProxyManager: the last call and the one before
pmLast == unit.pmLast
\* reverse proxy: something listens on the target port
upstreamUp == unit.upstreamUp
\* reverse proxy: the last request, what was sent upstream, the answer
exchange == unit.exchange
\* reverse proxy: some request was answered 502
had502 == unit.had502

\* stdio bridge: "serving" | "closing" | "exited" | "lingering"
bState == unit.bState
\* stdio bridge: the process's exit status, -1 while it runs
bExit == unit.bExit
\* stdio bridge: the upstream client: "open" | "closed" | "closeFailed"
bClient == unit.bClient
\* stdio bridge: the signal received, "" before
bSignal == unit.bSignal
\* stdio bridge: the last request and what was answered on stdout
bReply == unit.bReply
\* stdio bridge: some call-tool request was answered with isError
bHadError == unit.bHadError

vars == <<coordVars, mgrVars, srvVars, libVars>>

\* ------------------------------------------------------------ pure helpers
\* InstanceManager.version: the version getter of process p
VersionOf(p) == IF p = 1 THEN "1.0.0" ELSE "2.0.0"

\* static isPidAlive(pid)
isPidAlive(pid) == IF pid <= 0 THEN FALSE ELSE pid \in Procs

\* JSON.parse + the three typeof tests of readLock
ParseLock(f) == IF f.kind = "record" THEN LockRec(f.pid, f.version) ELSE NullLock

\* const isLockStale = !inspectedLock || !isPidAlive(inspectedLock.pid)
IsLockStale(l) == l.isNull \/ ~isPidAlive(l.pid)

\* mutant: the two reasons swapped
ReclaimReason_Swapped(l) == IF l.isNull THEN "stale-lock" ELSE "lock-missing"

\* reason: inspectedLock ? 'stale-lock' : 'lock-missing'
ReclaimReason(l) == IF l.isNull THEN "lock-missing" ELSE "stale-lock"

\* mutant: the comparison inverted (===)
VersionsDiffer_Inverted(mainV, desired) == mainV = desired

\* mutant: an unanswered query taken for "same version"
VersionsDiffer_NullIsSame(mainV, desired) == mainV # desired /\ mainV # Null

\* mainVersion !== desiredVersion
VersionsDiffer(mainV, desired) == mainV # desired

\* mutant: flag 'w' instead of 'wx', the open succeeds on an existing file
CanCreateExclusive_Overwrite(f) == TRUE

\* fs.openSync(path, 'wx'): succeeds iff nothing is at the path
CanCreateExclusive(f) == f.kind = "absent"

NoCall == [name |-> "none", answer |-> "", saw |-> ""]

\* constructor: proxyPort = null; no file-system call made yet
MgrInit ==
    /\ proxyPort = [p \in Procs |-> 0]
    /\ errno = [p \in Procs |-> "none"]
    /\ lastCall = [p \in Procs |-> NoCall]
    /\ dirWritable = TRUE

\* --port values: the default and another one
Ports == {DefaultPort, DefaultPort + 1}

\* the port the kernel assigns to a listen on port 0: none of the configured ones
EphemeralPort(p) == DefaultPort + NumProcs + p

AllPorts == Ports \cup {EphemeralPort(p) : p \in Procs}

\* parseCliArgs defaults: port 8989, http, local false; no localMode hooks
DefaultOpts == [port |-> DefaultPort, mode |-> "http", local |-> FALSE, hooks |-> "none"]

NoProxy == [listen |-> 0, target |-> 0]
NoRequest == [method |-> "", path |-> "", status |-> 0]
NoAnswer == [call |-> "", from |-> 0, answer |-> ""]

\* no process has entered startMcpServer
SrvInit ==
    /\ opts = [p \in Procs |-> DefaultOpts]
    /\ stage = [p \in Procs |-> "idle"]
    /\ lockFiles = [n \in Ports |-> FileAbsent]
    /\ listener = [n \in AllPorts |-> 0]
    /\ routes = [p \in Procs |-> {}]
    /\ proxy = [p \in Procs |-> NoProxy]
    /\ blockedBy = [p \in Procs |-> 0]
    /\ served = [p \in Procs |-> NoRequest]
    /\ got = [p \in Procs |-> NoAnswer]

\* ------------------------------------------------- JavaScript and JSON values
\* a value as typeof sees it; "omitted" is a member a JSON text does not have
Undefined == [t |-> "undefined", n |-> 0, s |-> ""]
JNull == [t |-> "null", n |-> 0, s |-> ""]
Omitted == [t |-> "omitted", n |-> 0, s |-> ""]
Num(n) == [t |-> "number", n |-> n, s |-> ""]
Str(s) == [t |-> "string", n |-> 0, s |-> s]

\* typeof v
TypeOf(v) == IF v.t = "null" THEN "object" ELSE v.t

Keys == {"pid", "version", "timestamp"}

\* an object none of whose three properties is set
NoProps == [k \in Keys |-> Undefined]

\* this.lock and what readLock returns: null, or the record object
NullRec == [isNull |-> TRUE, rec |-> NoProps]
Rec(o) == [isNull |-> FALSE, rec |-> o]

\* what is at the lock path: nothing, a directory, a text that is no JSON
\* object ("" empty, "not-json", "null", "5"), or a JSON object's members
NoMembers == [k \in Keys |-> Omitted]
AbsentC == [kind |-> "absent", text |-> "", members |-> NoMembers]
DirC == [kind |-> "dir", text |-> "", members |-> NoMembers]
TextC(t) == [kind |-> "text", text |-> t, members |-> NoMembers]
ObjC(m) == [kind |-> "object", text |-> "", members |-> m]

NoRet == [op |-> "none", prev |-> "none", before |-> AbsentC, threw |-> FALSE,
          value |-> NullRec]

\* ProxyMetadata values; absent is the metadata option left out
NoMetadata == [given |-> FALSE, mainVersion |-> Undefined, mainPort |-> 0,
               instanceId |-> Undefined, startTime |-> Undefined]

NoProxied == [method |-> "", path |-> "", query |-> "", headers |-> {}, body |-> ""]

NoSent == [method |-> "", host |-> "", port |-> 0, path |-> "", query |-> "",
           headers |-> {}, body |-> ""]

NoResponse == [status |-> 0, error |-> "", message |-> "", from |-> "none"]

NoExchange == [kind |-> "none", md |-> NoMetadata, req |-> NoProxied,
               sent |-> NoSent, resp |-> NoResponse, up |-> FALSE, after502 |-> FALSE]

NoPmCall == [op |-> "none", prev |-> "none"]

NoReply == [request |-> "none", tool |-> "", thrown |-> [kind |-> "none", text |-> ""],
            kind |-> "none", isError |-> FALSE, text |-> "", afterError |-> FALSE]


\* no component is exercised on its own
LibInit == unit = Idle

Init ==
    /\ file \in {FileAbsent, FileGarbage, FileRecord(DeadPid, "1.0.0")}
    /\ fdLinked = [p \in Procs |-> FALSE]
    /\ entry \in [Procs -> {"coordinate", "startMcpServer"}]
    \* options.desiredVersion ?? instanceManager.version, no option given
    /\ desiredVersion = [p \in Procs |-> VersionOf(p)]
    /\ removeStaleLock \in [Procs -> BOOLEAN]
    \* startMcpServer never reads the flag
    /\ \A p \in Procs : entry[p] = "startMcpServer" => removeStaleLock[p] = TRUE
    /\ pc = [p \in Procs |-> IF entry[p] = "coordinate" THEN "try1" ELSE "st_try"]
    /\ sub = [p \in Procs |-> "call"]
    /\ role = [p \in Procs |-> "unknown"]
    /\ lock = [p \in Procs |-> NullLock]
    /\ inspectedLock = [p \in Procs |-> NullLock]
    /\ mainVersion = [p \in Procs |-> Null]
    /\ result = [p \in Procs |-> NoResult]
    /\ calls = [p \in Procs |-> <<>>]
    /\ answers = [p \in Procs |-> <<>>]
    /\ fileAtReturn = [p \in Procs |-> FileAbsent]
    /\ winners = {}
    /\ liveRemoved = {}
    /\ MgrInit
    /\ SrvInit
    /\ LibInit

\* ------------------------------------------------------------ bookkeeping
Goto(p, next) ==
    /\ pc' = [pc EXCEPT ![p] = next]
    /\ UNCHANGED <<result, fileAtReturn>>

\* the routine returns (or throws) res while f is at the lock path
Finish(p, res, f) ==
    /\ pc' = [pc EXCEPT ![p] = "done"]
    /\ result' = [result EXCEPT ![p] = res]
    /\ fileAtReturn' = [fileAtReturn EXCEPT ![p] = f]

Called(p, name, answer) ==
    /\ calls' = [calls EXCEPT ![p] = Append(@, name)]
    /\ answers' = [answers EXCEPT ![p] = Append(@, answer)]

TrySites == {"try1", "try2", "try3", "st_try"}

\* ------------------------------------------------- the start-up routines
\* mutant: the first tryBecomeMain's answer is not looked at
AfterTryBecomeMain_IgnoreAnswer(p, ok, f) ==
    CASE pc[p] = "try1" -> Finish(p, MainResult("initial", Null), f)
      [] pc[p] = "try2" ->
            IF ok THEN Finish(p, MainResult(ReclaimReason(inspectedLock[p]), Null), f)
            ELSE Goto(p, "fetch")
      [] pc[p] = "try3" ->
            IF ok THEN Finish(p, MainResult("version-transition", mainVersion[p]), f)
            ELSE Finish(p, ErrorResult("TransitionRaceLost"), f)
      [] pc[p] = "st_try" ->
            IF ok THEN Finish(p, MainResult("startMcpServer", Null), f)
            ELSE Finish(p, ProxyResult(VersionOf(p)), f)

\* what follows a tryBecomeMain that answered ok, f being at the lock path
AfterTryBecomeMain(p, ok, f) ==
    CASE pc[p] = "try1" ->
            IF ok THEN Finish(p, MainResult("initial", Null), f)
            ELSE Goto(p, IF removeStaleLock[p] THEN "read" ELSE "fetch")
      [] pc[p] = "try2" ->
            IF ok THEN Finish(p, MainResult(ReclaimReason(inspectedLock[p]), Null), f)
            ELSE Goto(p, "fetch")
      [] pc[p] = "try3" ->
            IF ok THEN Finish(p, MainResult("version-transition", mainVersion[p]), f)
            ELSE Finish(p, ErrorResult("TransitionRaceLost"), f)
      [] pc[p] = "st_try" ->
            IF ok THEN Finish(p, MainResult("startMcpServer", Null), f)
            ELSE Finish(p, ProxyResult(VersionOf(p)), f)

\* tryBecomeMain, first half: fs.openSync(lockPath, 'wx')
tryBecomeMainOpen(p) ==
    /\ pc[p] \in TrySites
    /\ sub[p] = "call"
    /\ IF CanCreateExclusive(file)
       THEN /\ file' = FileEmpty
            /\ fdLinked' = [fdLinked EXCEPT ![p] = TRUE]
            /\ sub' = [sub EXCEPT ![p] = "opened"]
            /\ winners' = winners \cup {p}
            /\ UNCHANGED <<pc, result, fileAtReturn, calls, answers>>
       ELSE \* EEXIST: return false
            /\ Called(p, "tryBecomeMain", "false")
            /\ AfterTryBecomeMain(p, FALSE, file)
            /\ UNCHANGED <<file, fdLinked, sub, winners>>
    /\ UNCHANGED <<libVars, mgrVars, srvVars, entry, desiredVersion, removeStaleLock, role, lock, inspectedLock,
                   mainVersion, liveRemoved>>

\* tryBecomeMain, second half: writeFileSync(fd), closeSync(fd), this.lock,
\* this.role, return true.  The write goes to the inode the descriptor names,
\* which is no longer at the path when the file was unlinked in between.
tryBecomeMainWrite(p) ==
    /\ pc[p] \in TrySites
    /\ sub[p] = "opened"
    /\ file' = IF fdLinked[p] THEN FileRecord(p, VersionOf(p)) ELSE file
    /\ fdLinked' = [fdLinked EXCEPT ![p] = FALSE]
    /\ sub' = [sub EXCEPT ![p] = "call"]
    /\ lock' = [lock EXCEPT ![p] = LockRec(p, VersionOf(p))]
    /\ role' = [role EXCEPT ![p] = "main"]
    /\ Called(p, "tryBecomeMain", "true")
    /\ AfterTryBecomeMain(p, TRUE, file')
    /\ UNCHANGED <<libVars, mgrVars, srvVars, entry, desiredVersion, removeStaleLock, inspectedLock, mainVersion,
                   winners, liveRemoved>>

\* what follows readLock answering l
AfterReadLock(p, l) ==
    /\ inspectedLock' = [inspectedLock EXCEPT ![p] = l]
    /\ Called(p, "readLock", IF l.isNull THEN Null ELSE "record")
    /\ Goto(p, IF IsLockStale(l) THEN "remove1" ELSE "fetch")

\* readLock, first half: fs.existsSync(lockPath)
readLockExists(p) ==
    /\ pc[p] = "read"
    /\ sub[p] = "call"
    /\ IF file.kind = "absent"
       THEN /\ lock' = [lock EXCEPT ![p] = NullLock]
            /\ AfterReadLock(p, NullLock)
            /\ UNCHANGED sub
       ELSE /\ sub' = [sub EXCEPT ![p] = "exists"]
            /\ UNCHANGED <<lock, inspectedLock, pc, result, fileAtReturn, calls, answers>>
    /\ UNCHANGED <<libVars, mgrVars, srvVars, file, fdLinked, entry, desiredVersion, removeStaleLock, role,
                   mainVersion, winners, liveRemoved>>

\* readLock, second half: readFileSync + JSON.parse + field checks; every
\* exception (the file vanished, the text does not parse) is caught: null
readLockRead(p) ==
    /\ pc[p] = "read"
    /\ sub[p] = "exists"
    /\ sub' = [sub EXCEPT ![p] = "call"]
    /\ LET l == ParseLock(file) IN
          /\ lock' = [lock EXCEPT ![p] = IF l.isNull THEN @ ELSE l]
          /\ AfterReadLock(p, l)
    /\ UNCHANGED <<libVars, mgrVars, srvVars, file, fdLinked, entry, desiredVersion, removeStaleLock, role,
                   mainVersion, winners, liveRemoved>>

\* requestMainTransition answered true earlier in this run of p
TransitionAccepted(p) ==
    \E i \in 1 .. Len(calls[p]) :
        calls[p][i] = "requestMainTransition" /\ answers[p][i] = "true"

\* removeLock: try { fs.unlinkSync(lockPath) } catch {}
removeLock(p) ==
    /\ pc[p] \in {"remove1", "remove2"}
    /\ file' = FileAbsent
    /\ fdLinked' = [q \in Procs |-> FALSE]
    /\ winners' = {}
    /\ liveRemoved' =
          IF /\ file.kind = "record" /\ isPidAlive(file.pid) /\ file.pid # p
             /\ ~TransitionAccepted(p)
          THEN liveRemoved \cup {p} ELSE liveRemoved
    /\ Called(p, "removeLock", "void")
    /\ Goto(p, IF pc[p] = "remove1" THEN "try2" ELSE "try3")
    /\ UNCHANGED <<libVars, mgrVars, srvVars, entry, desiredVersion, removeStaleLock, sub, role, lock, inspectedLock,
                   mainVersion>>

\* const mainVersion = ...; if (mainVersion !== desiredVersion) {...} return proxy
AfterFetchMainVersion(p, v) ==
    IF VersionsDiffer(v, desiredVersion[p])
    THEN Goto(p, "transition")
    ELSE Finish(p, ProxyResult(v), file)

\* fetchMainVersion: GET /__version on the target port; the answer is what
\* the listener there gives, null on any failure
fetchMainVersion(p) ==
    /\ pc[p] = "fetch"
    /\ \E v \in Versions \cup {Null} :
          /\ mainVersion' = [mainVersion EXCEPT ![p] = v]
          /\ Called(p, "fetchMainVersion", v)
          /\ AfterFetchMainVersion(p, v)
    /\ UNCHANGED <<libVars, mgrVars, srvVars, file, fdLinked, entry, desiredVersion, removeStaleLock, sub, role, lock,
                   inspectedLock, winners, liveRemoved>>

\* mutant: the denial is not checked, the run goes on to waitForPort
AfterRequestMainTransition_Unchecked(p, transitioned) == Goto(p, "wait")

\* if (!transitioned) throw new Error('Failed to transition ...')
AfterRequestMainTransition(p, transitioned) ==
    IF transitioned
    THEN Goto(p, "wait")
    ELSE Finish(p, ErrorResult("TransitionDenied"), file)

\* requestMainTransition: POST /__transition; true iff the status is 200
requestMainTransition(p) ==
    /\ pc[p] = "transition"
    /\ \E ok \in BOOLEAN :
          /\ Called(p, "requestMainTransition", IF ok THEN "true" ELSE "false")
          /\ AfterRequestMainTransition(p, ok)
    /\ UNCHANGED <<libVars, mgrVars, srvVars, file, fdLinked, entry, desiredVersion, removeStaleLock, sub, role, lock,
                   inspectedLock, mainVersion, winners, liveRemoved>>

\* mutant: a timed-out wait fails the run
AfterWaitForPort_Fatal(p, free) ==
    IF free THEN Goto(p, "remove2") ELSE Finish(p, ErrorResult("PortTimeout"), file)

\* await instanceManager.waitForPort(...): the answer is dropped
AfterWaitForPort(p, free) == Goto(p, "remove2")

\* waitForPort(timeout): true when a bind succeeded in time, else false
waitForPort(p) ==
    /\ pc[p] = "wait"
    /\ \E ok \in BOOLEAN :
          /\ Called(p, "waitForPort", IF ok THEN "true" ELSE "false")
          /\ AfterWaitForPort(p, ok)
    /\ UNCHANGED <<libVars, mgrVars, srvVars, file, fdLinked, entry, desiredVersion, removeStaleLock, sub, role, lock,
                   inspectedLock, mainVersion, winners, liveRemoved>>

Next ==
    \E p \in Procs :
        \/ tryBecomeMainOpen(p)
        \/ tryBecomeMainWrite(p)
        \/ readLockExists(p)
        \/ readLockRead(p)
        \/ removeLock(p)
        \/ fetchMainVersion(p)
        \/ requestMainTransition(p)
        \/ waitForPort(p)

Spec == Init /\ [][Next]_vars

\* ------------------------------------ the InstanceManager, called directly
\* Each method runs to its return; the interleaving of two processes inside
\* tryBecomeMain is the subject of the start-up routines above.

\* the variables of the start-up routines the manager's methods do not touch
coordRest == <<fdLinked, entry, desiredVersion, removeStaleLock, pc, sub, inspectedLock,
               mainVersion, result, calls, answers, fileAtReturn, winners, liveRemoved>>

\* mutant: a directory at the path is replaced by the lock file
OpenExclusiveErrno_DirReplaced(f, writable) ==
    IF f.kind \notin {"absent", "dir"} THEN "EEXIST"
    ELSE IF ~writable THEN "EACCES"
    ELSE "none"

\* the code of the error fs.openSync(lockPath, 'wx') throws, "none" on success:
\* O_CREAT|O_EXCL fails with EEXIST on whatever occupies the path, a directory
\* included, and with EACCES when the entry cannot be created
OpenExclusiveErrno(f, writable) ==
    IF ~CanCreateExclusive(f) THEN "EEXIST"
    ELSE IF ~writable THEN "EACCES"
    ELSE "none"

\* mutant: every failure of the open is reported as false
TryBecomeMainAnswer_Swallow(code) == IF code = "none" THEN "true" ELSE "false"

\* try { ... return true } catch (err) { if (err.code === 'EEXIST') return false; throw err }
TryBecomeMainAnswer(code) ==
    IF code = "none" THEN "true"
    ELSE IF code = "EEXIST" THEN "false"
    ELSE "throw"

\* saw: what tryBecomeMain's open met at the lock path
Did(p, name, answer) ==
    lastCall' = [lastCall EXCEPT ![p] =
                    [name |-> name, answer |-> answer,
                     saw |-> IF name = "tryBecomeMain" THEN file.kind ELSE ""]]

\* the codes fs.writeFileSync(fd, ...) can fail with on the new, empty file
\* ("none": the record is written)
WriteErrnos == {"none", "ENOSPC"}

\* the whole call: the open, then the write on the descriptor, then the
\* assignments; a failed write leaves the file the open created, empty
mTryBecomeMain(p) ==
    \E wcode \in WriteErrnos :
        LET ocode == OpenExclusiveErrno(file, dirWritable)
            code == IF ocode = "none" THEN wcode ELSE ocode
        IN  /\ errno' = [errno EXCEPT ![p] = code]
            /\ Did(p, "tryBecomeMain", TryBecomeMainAnswer(code))
            /\ IF code = "none"
               THEN /\ file' = FileRecord(p, VersionOf(p))
                    /\ lock' = [lock EXCEPT ![p] = LockRec(p, VersionOf(p))]
                    /\ role' = [role EXCEPT ![p] = "main"]
               ELSE /\ file' = IF ocode = "none" THEN FileEmpty ELSE file
                    /\ UNCHANGED <<lock, role>>
            /\ UNCHANGED <<libVars, coordRest, srvVars, proxyPort, dirWritable>>

mReadLock(p) ==
    /\ IF file.kind = "absent"
       THEN /\ lock' = [lock EXCEPT ![p] = NullLock]
            /\ Did(p, "readLock", Null)
       ELSE IF ParseLock(file).isNull
       THEN \* readFileSync or JSON.parse throws, or a field is missing: null
            /\ Did(p, "readLock", Null)
            /\ UNCHANGED lock
       ELSE /\ lock' = [lock EXCEPT ![p] = ParseLock(file)]
            /\ Did(p, "readLock", "record")
    /\ UNCHANGED <<libVars, coordRest, srvVars, file, role, proxyPort, errno, dirWritable>>

\* fs.writeFileSync(lockPath, ..., {flag: 'w'}); this.lock = lock
mWriteLock(p) ==
    LET code == IF file.kind = "dir" THEN "EISDIR"
                ELSE IF file.kind = "absent" /\ ~dirWritable THEN "EACCES"
                ELSE "none"
    IN  /\ IF code = "none"
           THEN /\ file' = FileRecord(p, VersionOf(p))
                /\ lock' = [lock EXCEPT ![p] = LockRec(p, VersionOf(p))]
                /\ Did(p, "writeLock", "ok")
           ELSE /\ Did(p, "writeLock", "throw")
                /\ UNCHANGED <<file, lock>>
        /\ UNCHANGED <<libVars, coordRest, srvVars, role, proxyPort, errno, dirWritable>>

\* try { fs.unlinkSync(lockPath) } catch { }
mRemoveLock(p) ==
    LET code == IF file.kind = "absent" THEN "ENOENT"
                ELSE IF file.kind = "dir" THEN "EISDIR"
                ELSE IF ~dirWritable THEN "EACCES"
                ELSE "none"
    IN  /\ file' = IF code = "none" THEN FileAbsent ELSE file
        /\ Did(p, "removeLock", "ok")
        /\ UNCHANGED <<libVars, coordRest, srvVars, role, lock, proxyPort, errno, dirWritable>>

\* proxyManager.start({targetPort}): listens on port 0
mStartProxy(p) ==
    /\ proxyPort' = [proxyPort EXCEPT ![p] = EphemeralPort(p)]
    /\ role' = [role EXCEPT ![p] = "proxy"]
    /\ Did(p, "startProxy", "ok")
    /\ UNCHANGED <<libVars, coordRest, srvVars, file, lock, errno, dirWritable>>

InitManager ==
    /\ file \in {FileAbsent, FileGarbage, FileDir, FileRecord(DeadPid, "1.0.0")}
    /\ dirWritable \in BOOLEAN
    /\ fdLinked = [p \in Procs |-> FALSE]
    /\ entry = [p \in Procs |-> "manager"]
    /\ desiredVersion = [p \in Procs |-> VersionOf(p)]
    /\ removeStaleLock = [p \in Procs |-> TRUE]
    /\ pc = [p \in Procs |-> "manager"]
    /\ sub = [p \in Procs |-> "call"]
    /\ role = [p \in Procs |-> "unknown"]
    /\ lock = [p \in Procs |-> NullLock]
    /\ inspectedLock = [p \in Procs |-> NullLock]
    /\ mainVersion = [p \in Procs |-> Null]
    /\ result = [p \in Procs |-> NoResult]
    /\ calls = [p \in Procs |-> <<>>]
    /\ answers = [p \in Procs |-> <<>>]
    /\ fileAtReturn = [p \in Procs |-> FileAbsent]
    /\ winners = {}
    /\ liveRemoved = {}
    /\ proxyPort = [p \in Procs |-> 0]
    /\ errno = [p \in Procs |-> "none"]
    /\ lastCall = [p \in Procs |-> NoCall]
    /\ SrvInit
    /\ LibInit

NextManager ==
    \E p \in Procs :
        \/ mTryBecomeMain(p)
        \/ mReadLock(p)
        \/ mWriteLock(p)
        \/ mRemoveLock(p)
        \/ mStartProxy(p)

SpecManager == InitManager /\ [][NextManager]_vars

\* tryBecomeMain against every state of the lock path: the managers only
\* create the lock and unlink it
NextExclusive ==
    \E p \in Procs :
        \/ mTryBecomeMain(p)
        \/ mRemoveLock(p)

SpecExclusive == InitManager /\ [][NextExclusive]_vars

\* ------------------------------------------------------- startMcpServer
\* new InstanceManager({lockPath: undefined, port}): the lock file's name is
\* path.join(os.tmpdir(), 'mcp-kit-8989.lock') whatever the port
DefaultLockPath(port) == DefaultPort

LockPathOf(p) == DefaultLockPath(opts[p].port)

\* createHonoMcpServer: health, mcp and root
BaseRoutes == {<<"GET", "/health">>, <<"POST", "/mcp">>, <<"GET", "/">>}

\* startMcpServer's setupRoutes: control routes only with --local and hooks
ControlRoutes(o) ==
    IF o.local /\ o.hooks # "none"
    THEN {<<"POST", "/shutdown">>, <<"POST", "/transition">>}
    ELSE {}

\* the paths the InstanceManager's control-plane calls ask for
PathOfCall(call) ==
    CASE call = "fetchMainVersion" -> <<"GET", "/__version">>
      [] call = "requestMainShutdown" -> <<"POST", "/__shutdown">>
      [] call = "requestMainTransition" -> <<"POST", "/__transition">>

ManagerCalls == {"fetchMainVersion", "requestMainShutdown", "requestMainTransition"}

\* [status, json, version]: status 0 is a refused connection
Refused == [status |-> 0, json |-> FALSE, version |-> Null]
NotFound == [status |-> 404, json |-> FALSE, version |-> Null]
BadGateway == [status |-> 502, json |-> TRUE, version |-> Null]
Ok(version) == [status |-> 200, json |-> TRUE, version |-> version]

\* what the app of server h answers: a registered route's handler, the root
\* one reporting serverVersion, or Hono's 404 text
AppReply(h, req) ==
    IF req \in routes[h]
    THEN Ok(IF req = <<"GET", "/">> THEN VersionOf(h) ELSE Null)
    ELSE NotFound

\* what a request to 127.0.0.1:port gets: a proxy forwards it to its target
\* port and answers 502 when that fails; one whose target is its own listen
\* port only ever reaches itself
ReplyAt(port, req) ==
    LET h == listener[port]
    IN  IF h = 0 THEN Refused
        ELSE IF stage[h] # "proxy" THEN AppReply(h, req)
        ELSE LET up == listener[proxy[h].target]
             IN  IF up = 0 \/ stage[up] = "proxy" THEN BadGateway
                 ELSE AppReply(up, req)

\* the process whose app handles a request to the port (0: none)
HandlerAt(port) ==
    LET h == listener[port]
    IN  IF h = 0 THEN 0
        ELSE IF stage[h] # "proxy" THEN h
        ELSE LET up == listener[proxy[h].target]
             IN  IF up = 0 \/ stage[up] = "proxy" THEN 0 ELSE up

\* JSON.parse(data); resolve(json.version || null), the status is not read
ParseVersion(reply) ==
    IF reply.status # 0 /\ reply.json THEN reply.version ELSE Null

\* the variables startMcpServer does not touch
serverRest == <<libVars, coordRest, mgrVars, file>>

\* const shouldBeMain = await instanceManager.tryBecomeMain()
sTryBecomeMain(p) ==
    LET n == LockPathOf(p)
    IN  /\ stage[p] = "start"
        /\ IF CanCreateExclusive(lockFiles[n])
           THEN /\ lockFiles' = [lockFiles EXCEPT ![n] = FileRecord(p, VersionOf(p))]
                /\ lock' = [lock EXCEPT ![p] = LockRec(p, VersionOf(p))]
                /\ role' = [role EXCEPT ![p] = "main"]
                /\ stage' = [stage EXCEPT ![p] = "main"]
                /\ UNCHANGED blockedBy
           ELSE /\ stage' = [stage EXCEPT ![p] = "secondary"]
                /\ blockedBy' = [blockedBy EXCEPT ![p] = lockFiles[n].pid]
                /\ UNCHANGED <<lockFiles, lock, role>>
        /\ UNCHANGED <<serverRest, opts, listener, routes, proxy, served, got>>

\* proxy mode: startStdioProxy, or proxyManager.start({targetPort:
\* instanceManager.port, listenPort: cliOptions.port}); a listen that fails
\* emits 'error' on a server without an 'error' listener
sStartProxy(p) ==
    /\ stage[p] = "secondary"
    /\ IF opts[p].mode = "stdio"
       THEN /\ stage' = [stage EXCEPT ![p] = "stdioProxy"]
            /\ UNCHANGED <<listener, proxy>>
       ELSE IF listener[opts[p].port] # 0
       THEN /\ stage' = [stage EXCEPT ![p] = "proxyCrashed"]
            /\ UNCHANGED <<listener, proxy>>
       ELSE /\ stage' = [stage EXCEPT ![p] = "proxy"]
            /\ listener' = [listener EXCEPT ![opts[p].port] = p]
            /\ proxy' = [proxy EXCEPT ![p] = [listen |-> opts[p].port, target |-> opts[p].port]]
    /\ UNCHANGED <<serverRest, role, lock, opts, lockFiles, routes, blockedBy, served, got>>

\* const portFree = await ensurePortAvailable(port, killExisting);
\* if (!portFree) throw
sEnsurePort(p) ==
    /\ stage[p] = "main"
    /\ \E portFree \in BOOLEAN :
          stage' = [stage EXCEPT ![p] = IF portFree THEN "ready" ELSE "failed"]
    /\ UNCHANGED <<serverRest, role, lock, opts, lockFiles, listener, routes, proxy, blockedBy,
                   served, got>>

\* startStdioServer, or startHonoMcpServer: the routes, then serve({port})
sServe(p) ==
    /\ stage[p] = "ready"
    /\ IF opts[p].mode = "stdio"
       THEN /\ stage' = [stage EXCEPT ![p] = "serving"]
            /\ UNCHANGED <<listener, routes>>
       ELSE IF listener[opts[p].port] # 0
       THEN /\ stage' = [stage EXCEPT ![p] = "serveCrashed"]
            /\ UNCHANGED <<listener, routes>>
       ELSE /\ stage' = [stage EXCEPT ![p] = "serving"]
            /\ listener' = [listener EXCEPT ![opts[p].port] = p]
            /\ routes' = [routes EXCEPT ![p] = BaseRoutes \cup ControlRoutes(opts[p])]
    /\ UNCHANGED <<serverRest, role, lock, opts, lockFiles, proxy, blockedBy, served, got>>

\* the app handling req: the '/shutdown' and '/transition' handlers await the
\* user's hook (the README's hook calls instanceManager.removeLock()) and
\* answer 200; nothing else touches the lock
Handle(h, req) ==
    /\ served' = [served EXCEPT ![h] = [method |-> req[1], path |-> req[2],
                                        status |-> AppReply(h, req).status]]
    /\ lockFiles' = IF req \in ControlRoutes(opts[h]) /\ req \in routes[h]
                       /\ opts[h].hooks = "release"
                    THEN [lockFiles EXCEPT ![LockPathOf(h)] = FileAbsent]
                    ELSE lockFiles

\* a manager's fetchMainVersion / requestMainShutdown / requestMainTransition
\* against 127.0.0.1:port, and the server's handling of it
controlCall(q, call) ==
    LET req == PathOfCall(call)
        reply == ReplyAt(opts[q].port, req)
        h == HandlerAt(opts[q].port)
    IN  /\ stage[q] \notin {"idle", "start"}
        /\ got' = [got EXCEPT ![q] =
                      [call |-> call, from |-> h,
                       answer |-> IF call = "fetchMainVersion" THEN ParseVersion(reply)
                                  ELSE IF reply.status = 200 THEN "true" ELSE "false"]]
        /\ IF h = 0 THEN UNCHANGED <<served, lockFiles>> ELSE Handle(h, req)
        /\ UNCHANGED <<serverRest, role, lock, opts, stage, listener, routes, proxy, blockedBy>>

\* any client posting to a control route the starter does register
clientPost(port, path) ==
    LET h == HandlerAt(port)
    IN  /\ h # 0
        /\ Handle(h, <<"POST", path>>)
        /\ UNCHANGED <<serverRest, role, lock, opts, stage, listener, routes, proxy, blockedBy,
                       got>>

OptSet == [port : Ports, mode : {"http", "stdio"}, local : BOOLEAN,
           hooks : {"none", "noop", "release"}]

InitServer ==
    /\ file = FileAbsent
    /\ fdLinked = [p \in Procs |-> FALSE]
    /\ entry = [p \in Procs |-> "startMcpServer"]
    /\ desiredVersion = [p \in Procs |-> VersionOf(p)]
    /\ removeStaleLock = [p \in Procs |-> TRUE]
    /\ pc = [p \in Procs |-> "server"]
    /\ sub = [p \in Procs |-> "call"]
    /\ role = [p \in Procs |-> "unknown"]
    /\ lock = [p \in Procs |-> NullLock]
    /\ inspectedLock = [p \in Procs |-> NullLock]
    /\ mainVersion = [p \in Procs |-> Null]
    /\ result = [p \in Procs |-> NoResult]
    /\ calls = [p \in Procs |-> <<>>]
    /\ answers = [p \in Procs |-> <<>>]
    /\ fileAtReturn = [p \in Procs |-> FileAbsent]
    /\ winners = {}
    /\ liveRemoved = {}
    /\ MgrInit
    /\ opts \in [Procs -> OptSet]
    /\ stage = [p \in Procs |-> "start"]
    /\ lockFiles \in [Ports -> {FileAbsent, FileRecord(DeadPid, "1.0.0")}]
    /\ \A n \in Ports : n # DefaultPort => lockFiles[n] = FileAbsent
    /\ listener = [n \in AllPorts |-> 0]
    /\ routes = [p \in Procs |-> {}]
    /\ proxy = [p \in Procs |-> NoProxy]
    /\ blockedBy = [p \in Procs |-> 0]
    /\ served = [p \in Procs |-> NoRequest]
    /\ got = [p \in Procs |-> NoAnswer]
    /\ LibInit

NextServer ==
    \/ \E p \in Procs :
          \/ sTryBecomeMain(p)
          \/ sStartProxy(p)
          \/ sEnsurePort(p)
          \/ sServe(p)
    \/ \E q \in Procs, call \in ManagerCalls : controlCall(q, call)
    \/ \E port \in Ports, path \in {"/shutdown", "/transition"} : clientPost(port, path)

SpecServer == InitServer /\ [][NextServer]_vars

\* the start-up routines, the managers and the servers at rest
RestIdle ==
    /\ file = FileAbsent
    /\ fdLinked = [p \in Procs |-> FALSE]
    /\ entry = [p \in Procs |-> "manager"]
    /\ desiredVersion = [p \in Procs |-> VersionOf(p)]
    /\ removeStaleLock = [p \in Procs |-> TRUE]
    /\ pc = [p \in Procs |-> "manager"]
    /\ sub = [p \in Procs |-> "call"]
    /\ role = [p \in Procs |-> "unknown"]
    /\ lock = [p \in Procs |-> NullLock]
    /\ inspectedLock = [p \in Procs |-> NullLock]
    /\ mainVersion = [p \in Procs |-> Null]
    /\ result = [p \in Procs |-> NoResult]
    /\ calls = [p \in Procs |-> <<>>]
    /\ answers = [p \in Procs |-> <<>>]
    /\ fileAtReturn = [p \in Procs |-> FileAbsent]
    /\ winners = {}
    /\ liveRemoved = {}
    /\ MgrInit
    /\ SrvInit

\* ------------------------------------------ the lock record store on its own
\* One InstanceManager, its lock path, and every content the path can have.

Times == 1 .. MaxTime

\* mutant: the version is not written
Stringify_DropVersion(o) ==
    [k \in Keys |-> IF o[k] = Undefined \/ k = "version" THEN Omitted ELSE o[k]]

\* JSON.stringify(lock): a property whose value is undefined is left out
Stringify(o) == [k \in Keys |-> IF o[k] = Undefined THEN Omitted ELSE o[k]]

\* the object JSON.parse gives for a JSON object: a member the text does not
\* have reads as undefined
ParseMembers(m) == [k \in Keys |-> IF m[k] = Omitted THEN Undefined ELSE m[k]]

\* the statement of readLock's try block that throws on content c ("none":
\* none does): readFileSync on a directory, JSON.parse on a text that is not
\* JSON, lock.pid on the value null
RaisedAt(c) ==
    IF c.kind = "dir" THEN "readFileSync"
    ELSE IF c.kind = "text" /\ c.text \in {"", "not-json"} THEN "JSON.parse"
    ELSE IF c.kind = "text" /\ c.text = "null" THEN "lock.pid"
    ELSE "none"

\* mutant: JSON.parse moved out of the try block
InsideTry_ParseOutside(step) == step # "JSON.parse"

\* readFileSync, JSON.parse and the typeof tests are all inside try { } catch { }
InsideTry(step) == TRUE

\* the properties the parsed value shows: a number such as 5 has none
Parsed(c) == IF c.kind = "object" THEN ParseMembers(c.members) ELSE NoProps

\* typeof lock.pid === 'number' && typeof lock.version === 'string' &&
\* typeof lock.timestamp === 'number'
WellTyped(o) ==
    /\ TypeOf(o["pid"]) = "number"
    /\ TypeOf(o["version"]) = "string"
    /\ TypeOf(o["timestamp"]) = "number"

\* readLock on content c: [threw, value]
ReadLockOutcome(c) ==
    IF c.kind = "absent" THEN [threw |-> FALSE, value |-> NullRec]
    ELSE IF RaisedAt(c) # "none"
    THEN [threw |-> ~InsideTry(RaisedAt(c)), value |-> NullRec]
    ELSE IF WellTyped(Parsed(c)) THEN [threw |-> FALSE, value |-> Rec(Parsed(c))]
    ELSE [threw |-> FALSE, value |-> NullRec]

\* { pid: process.pid, version: this.version, timestamp: Date.now() }
NewLock(now) ==
    [k \in Keys |-> CASE k = "pid" -> Num(me.pid)
                      [] k = "version" -> me.version
                      [] k = "timestamp" -> Num(now)]

Returned(op, threw, value) ==
    [op |-> op, prev |-> ret.op, before |-> disk, threw |-> threw, value |-> value]

storeReadLock ==
    LET out == ReadLockOutcome(disk)
    IN  /\ me.pid # 0
        /\ unit' = [unit EXCEPT
              !.ret = Returned("readLock", out.threw, out.value),
              !.held = IF disk.kind = "absent" THEN NullRec
                       ELSE IF out.value.isNull THEN held
                       ELSE out.value]
        /\ UNCHANGED unitFrame

\* mutant: the unlink's failure is not caught
UnlinkCaught_Rethrown == FALSE

\* try { fs.unlinkSync(this.lockPath); } catch { }
UnlinkCaught == TRUE

\* unlinkSync succeeds on a file whose directory can be written
CanUnlink(c, writable) == c.kind \in {"text", "object"} /\ writable

storeRemoveLock ==
    /\ me.pid # 0
    /\ unit' = [unit EXCEPT
          !.disk = IF CanUnlink(disk, dirWritable) THEN AbsentC ELSE disk,
          !.wrote = IF CanUnlink(disk, dirWritable) THEN NullRec ELSE wrote,
          !.ret = Returned("removeLock", ~CanUnlink(disk, dirWritable) /\ ~UnlinkCaught, NullRec)]
    /\ UNCHANGED unitFrame

\* writeFileSync(lockPath, JSON.stringify(lock), {flag: 'w'}); this.lock = lock
storeWriteLock ==
    /\ me.pid # 0
    /\ \E now \in Times :
          unit' = IF disk.kind = "dir" \/ (disk.kind = "absent" /\ ~dirWritable)
                  THEN [unit EXCEPT !.ret = Returned("writeLock", TRUE, NullRec)]
                  ELSE [unit EXCEPT !.disk = ObjC(Stringify(NewLock(now))),
                                    !.held = Rec(NewLock(now)),
                                    !.wrote = Rec(NewLock(now)),
                                    !.ret = Returned("writeLock", FALSE, NullRec)]
    /\ UNCHANGED unitFrame

\* openSync(lockPath, 'wx'), writeFileSync(fd, JSON.stringify(lock)), this.lock = lock
storeTryBecomeMain ==
    /\ me.pid # 0
    /\ \E now \in Times :
          LET code == OpenExclusiveErrno([kind |-> disk.kind], dirWritable)
          IN  unit' = IF code = "none"
                      THEN [unit EXCEPT
                              !.disk = ObjC(Stringify(NewLock(now))),
                              !.held = Rec(NewLock(now)),
                              !.wrote = Rec(NewLock(now)),
                              !.ret = Returned("tryBecomeMain", FALSE, Rec(NewLock(now)))]
                      ELSE [unit EXCEPT
                              !.ret = Returned("tryBecomeMain",
                                               TryBecomeMainAnswer(code) = "throw", NullRec)]
    /\ UNCHANGED unitFrame

\* the members a JSON object at the lock path can have, well-typed or not
MemberVals == {Omitted, JNull, Num(1), Str("1.0.0")}

InitialContents ==
    {AbsentC, DirC}
        \cup {TextC(t) : t \in {"", "not-json", "null", "5"}}
        \cup {ObjC(m) : m \in [Keys -> MemberVals]}

\* the version getter is typed string; JavaScript lets it return undefined
GetterVals == {Str("1.0.0"), Str(""), Undefined}

InitStore ==
    /\ file = FileAbsent
    /\ fdLinked = [p \in Procs |-> FALSE]
    /\ entry = [p \in Procs |-> "manager"]
    /\ desiredVersion = [p \in Procs |-> VersionOf(p)]
    /\ removeStaleLock = [p \in Procs |-> TRUE]
    /\ pc = [p \in Procs |-> "manager"]
    /\ sub = [p \in Procs |-> "call"]
    /\ role = [p \in Procs |-> "unknown"]
    /\ lock = [p \in Procs |-> NullLock]
    /\ inspectedLock = [p \in Procs |-> NullLock]
    /\ mainVersion = [p \in Procs |-> Null]
    /\ result = [p \in Procs |-> NoResult]
    /\ calls = [p \in Procs |-> <<>>]
    /\ answers = [p \in Procs |-> <<>>]
    /\ fileAtReturn = [p \in Procs |-> FileAbsent]
    /\ winners = {}
    /\ liveRemoved = {}
    /\ proxyPort = [p \in Procs |-> 0]
    /\ errno = [p \in Procs |-> "none"]
    /\ lastCall = [p \in Procs |-> NoCall]
    /\ dirWritable \in BOOLEAN
    /\ SrvInit
    /\ unit \in [disk : InitialContents, held : {NullRec}, ret : {NoRet}, wrote : {NullRec},
                 me : [pid : Procs, version : GetterVals]]

NextStore ==
    \/ storeReadLock
    \/ storeWriteLock
    \/ storeRemoveLock
    \/ storeTryBecomeMain

SpecStore == InitStore /\ [][NextStore]_vars

\* ------------------------------------------------- waitForPort on its own
\* One call of waitForPort(timeoutMs); the clock moves while the call binds
\* and sleeps, and the port's holder comes and goes as it likes.

\* how late a timer fires and how long a bind attempt takes, at most
Jitter == PollMs \div 3

\* const timeout = timeoutMs ?? 10000
EffectiveTimeout(arg) == IF arg.set THEN arg.ms ELSE DefaultTimeoutMs

\* mutant: the loop runs once more when the elapsed time equals the timeout
LoopContinues_Inclusive(elapsed, timeout) == elapsed <= timeout

\* while (Date.now() - start < timeout)
LoopContinues(elapsed, timeout) == elapsed < timeout

\* the loop's test
wCheck ==
    /\ wpc = "check"
    /\ unit' = IF LoopContinues(clock - waitStart, EffectiveTimeout(timeoutMs))
               THEN [unit EXCEPT !.wpc = "bind"]
               \* return false
               ELSE [unit EXCEPT !.wpc = "done", !.waitResult = "false"]
    /\ UNCHANGED unitFrame

\* http.createServer().listen(port): 'listening' -> close, return true;
\* 'error' -> the catch, which sleeps
wBind ==
    /\ wpc = "bind"
    /\ \E took \in {0, Jitter} :
          unit' = [unit EXCEPT
              !.attempts = @ + 1,
              !.lastAttempt = clock,
              !.gapsOk = (gapsOk /\ (attempts = 0 \/ clock - lastAttempt >= PollMs)),
              !.clock = @ + took,
              !.wpc = IF portHeld THEN "sleep" ELSE "done",
              !.waitResult = IF portHeld THEN @ ELSE "true",
              !.successes = IF portHeld THEN @ ELSE @ + 1]
    /\ UNCHANGED unitFrame

\* await new Promise((r) => setTimeout(r, 300))
wSleep ==
    /\ wpc = "sleep"
    /\ \E late \in {0, Jitter} :
          unit' = [unit EXCEPT !.clock = @ + PollMs + late, !.wpc = "check"]
    /\ UNCHANGED unitFrame

\* the port's holder stops listening, or some process starts to
portChanges ==
    /\ wpc \in {"check", "bind", "sleep"}
    /\ unit' = [unit EXCEPT !.portHeld = ~@, !.everHeld = TRUE]
    /\ UNCHANGED unitFrame

\* the timeouts tried: none given, and 0 up to MaxPolls intervals
TimeoutArgs ==
    {[set |-> FALSE, ms |-> 0]}
        \cup {[set |-> TRUE, ms |-> k * Jitter] : k \in 0 .. (3 * MaxPolls)}

InitWait ==
    /\ RestIdle
    \* const start = Date.now()
    /\ \E arg \in TimeoutArgs, busy \in BOOLEAN :
          unit = [clock |-> 0, waitStart |-> 0, timeoutMs |-> arg, portHeld |-> busy,
                  wpc |-> "check", waitResult |-> "none", attempts |-> 0, successes |-> 0,
                  lastAttempt |-> 0, gapsOk |-> TRUE, everHeld |-> busy]

NextWait ==
    \/ wCheck
    \/ wBind
    \/ wSleep
    \/ portChanges

SpecWait == InitWait /\ [][NextWait]_vars

\* --------------------------------------- ProxyManager and the proxy application
\* One ProxyManager, the sockets its start calls open, the upstream that comes
\* and goes, and clients that send requests to any of the open sockets.

\* the ports the kernel assigns, and the ports a caller may ask for
ListenPorts == {DefaultPort + k : k \in 1 .. (MaxListeners + 1)}

\* the metadata options tried: left out, only mainPort, every field set
MetadataArgs ==
    {NoMetadata,
     [given |-> TRUE, mainVersion |-> Undefined, mainPort |-> DefaultPort,
      instanceId |-> Undefined, startTime |-> Undefined],
     [given |-> TRUE, mainVersion |-> Str("1.0.0"), mainPort |-> DefaultPort,
      instanceId |-> Str("i1"), startTime |-> Num(1)]}

\* if (metadata.x): undefined, '' and 0 are falsy
Truthy(v) == v \notin {Undefined, JNull, Str(""), Num(0)}

\* the headers the handler sets on the upstream request
ProxyHeaders(md, targetPort) ==
    IF ~md.given THEN {}
    ELSE (IF Truthy(md.mainVersion)
             THEN {<<"X-Proxy-Main-Version", md.mainVersion.s>>} ELSE {})
         \cup (IF Truthy(md.instanceId)
                  THEN {<<"X-Proxy-Instance-Id", md.instanceId.s>>} ELSE {})
         \cup (IF Truthy(md.startTime)
                  THEN {<<"X-Proxy-Start-Time", ToString(md.startTime.n)>>} ELSE {})
         \cup {<<"X-Proxy-Main-Port", ToString(md.mainPort)>>}

\* c.req.path: the pathname of the request URL, without the query string
ReqPath(req) == [path |-> req.path, query |-> ""]

\* new Request(`http://127.0.0.1:${targetPort}${c.req.path}`, c.req.raw), then
\* the X-Proxy-* headers
UpstreamRequest(req, targetPort, md) ==
    [method |-> req.method,
     host |-> "127.0.0.1",
     port |-> targetPort,
     path |-> ReqPath(req).path,
     query |-> ReqPath(req).query,
     headers |-> req.headers \cup ProxyHeaders(md, targetPort),
     body |-> req.body]

\* what the primary answers
UpstreamResponse(sent) == [status |-> 200, error |-> "", message |-> "", from |-> "upstream"]

\* mutant: the failure of fetch escapes the handler, Hono answers 500
FetchFailed_Uncaught == [status |-> 500, error |-> "", message |-> "", from |-> "proxy"]

\* catch: c.json({ error: 'Proxy error', message }, 502)
FetchFailed == [status |-> 502, error |-> "Proxy error", message |-> "fetch failed", from |-> "proxy"]

\* the requests clients send
Requests ==
    [method : {"GET"}, path : {"/", "/mcp"}, query : {"", "?a=1"},
     headers : {{}, {<<"accept", "text/plain">>}}, body : {""}]
        \cup [method : {"POST"}, path : {"/mcp"}, query : {"", "?a=1"},
              headers : {{<<"content-type", "application/json">>}}, body : {"", "{}"}]

PortsInUse == {l.port : l \in listeners}

\* get port()
PortGetter == pmServer

\* ProxyManager.start({ targetPort, listenPort, metadata }); listenPort 0 is
\* the kernel's choice. No 'error' listener is attached: on a port in use the
\* 'listening' event never comes and the unhandled 'error' event either ends
\* the process or, where the process handles uncaught exceptions, is lost.
pmStart ==
    /\ pmState = "ok"
    /\ Cardinality(listeners) < MaxListeners
    /\ \E listenPort \in {0} \cup ListenPorts, md \in MetadataArgs :
        LET stored == IF md.given THEN md
                      ELSE [NoMetadata EXCEPT !.given = TRUE, !.mainPort = DefaultPort]
        IN  IF listenPort \in PortsInUse
            THEN \E outcome \in {"hung", "crashed"} :
                    unit' = [unit EXCEPT
                        !.pmMetadata = stored,
                        !.pmState = outcome,
                        !.listeners = IF outcome = "crashed" THEN {} ELSE @]
            ELSE \E port \in ListenPorts \ PortsInUse :
                    /\ listenPort # 0 => port = listenPort
                    /\ unit' = [unit EXCEPT
                          !.pmMetadata = stored,
                          !.listeners = @ \cup {[port |-> port, target |-> DefaultPort,
                                                 md |-> md]},
                          !.pmServer = port,
                          !.pmLast = [op |-> "start", prev |-> pmLast.op]]
    /\ UNCHANGED unitFrame

\* ProxyManager.stop()
pmStop ==
    /\ pmState = "ok"
    /\ unit' = [unit EXCEPT
          !.listeners = {l \in @ : pmServer = 0 \/ l.port # pmServer},
          !.pmServer = 0,
          !.pmMetadata = IF pmServer # 0 THEN NoMetadata ELSE @,
          !.pmLast = [op |-> "stop", prev |-> pmLast.op]]
    /\ UNCHANGED unitFrame

\* the primary starts or stops listening on the target port
upstreamChanges ==
    /\ pmState # "crashed"
    /\ unit' = [unit EXCEPT !.upstreamUp = ~@]
    /\ UNCHANGED unitFrame

\* proxyApp.all('*', handler): one request to one of the open sockets
proxyRequest ==
    /\ \E l \in listeners, req \in Requests :
        LET sent == UpstreamRequest(req, l.target, l.md)
            resp == IF upstreamUp THEN UpstreamResponse(sent) ELSE FetchFailed
        IN unit' = [unit EXCEPT
              !.exchange = [kind |-> "done", md |-> l.md, req |-> req, sent |-> sent,
                            resp |-> resp, up |-> upstreamUp, after502 |-> had502],
              !.had502 = (had502 \/ resp.status = 502)]
    /\ UNCHANGED unitFrame

\* new ProxyManager()
InitProxyManager ==
    /\ RestIdle
    /\ unit = [pmServer |-> 0, pmMetadata |-> NoMetadata, listeners |-> {}, pmState |-> "ok",
               pmLast |-> NoPmCall, upstreamUp |-> FALSE, exchange |-> NoExchange,
               had502 |-> FALSE]

NextProxyManager ==
    \/ pmStart
    \/ pmStop

SpecProxyManager == InitProxyManager /\ [][NextProxyManager]_vars

\* a manager after its first start({ targetPort, metadata }), on a port of the
\* kernel's choice
InitProxy ==
    /\ RestIdle
    /\ \E port \in ListenPorts, md \in MetadataArgs, up \in BOOLEAN :
        unit = [pmServer |-> port,
                pmMetadata |-> (IF md.given THEN md
                                ELSE [NoMetadata EXCEPT !.given = TRUE,
                                                        !.mainPort = DefaultPort]),
                listeners |-> {[port |-> port, target |-> DefaultPort, md |-> md]},
                pmState |-> "ok",
                pmLast |-> [op |-> "start", prev |-> "none"],
                upstreamUp |-> up,
                exchange |-> NoExchange,
                had502 |-> FALSE]

NextProxy ==
    \/ proxyRequest
    \/ upstreamChanges
    \/ pmStop

SpecProxy == InitProxy /\ [][NextProxy]_vars

\* ------------------------------------------------------------ the stdio bridge
\* startStdioProxy after server.connect: requests arrive on stdin, the upstream
\* client answers or throws, and a signal runs shutdownHandler.

Tools == {"echo", "add"}

\* what mcpClient.callTool and mcpClient.listTools may do: answer, throw an
\* Error, or throw a value that is not an Error
NotThrown == [kind |-> "none", text |-> ""]

Thrown ==
    {[kind |-> "Error", text |-> "fetch failed"],
     [kind |-> "Error", text |-> "The operation was aborted due to timeout"],
     [kind |-> "value", text |-> "closed"]}

\* error instanceof Error ? error.message : String(error)
ErrorMessage(e) == e.text

\* mutant: the failure escapes the handler and the SDK answers a JSON-RPC error
CallToolFailed_Uncaught(e) == [kind |-> "rpcError", isError |-> FALSE, text |-> ErrorMessage(e)]

\* catch: { content: [{ type: 'text', text: `Proxy error: ${errorMessage}` }], isError: true }
CallToolFailed(e) == [kind |-> "toolResult", isError |-> TRUE, text |-> "Proxy error: " \o ErrorMessage(e)]

\* the upstream result, returned as it is
UpstreamResult(tool) == [kind |-> "toolResult", isError |-> FALSE, text |-> tool]

\* the CallToolRequestSchema handler
callTool ==
    /\ bState = "serving"
    /\ \E tool \in Tools, e \in Thrown \cup {NotThrown} :
        LET answer == IF e = NotThrown THEN UpstreamResult(tool) ELSE CallToolFailed(e)
        IN unit' = [unit EXCEPT
              !.bReply = [request |-> "call-tool", tool |-> tool, thrown |-> e,
                          kind |-> answer.kind, isError |-> answer.isError,
                          text |-> answer.text, afterError |-> bHadError],
              !.bHadError = (bHadError \/ answer.isError)]
    /\ UNCHANGED unitFrame

\* the ListToolsRequestSchema handler: no catch, a failure becomes the SDK's
\* JSON-RPC error response
listTools ==
    /\ bState = "serving"
    /\ \E e \in Thrown \cup {NotThrown} :
        unit' = [unit EXCEPT
            !.bReply = [request |-> "list-tools", tool |-> "", thrown |-> e,
                        kind |-> IF e = NotThrown THEN "toolList" ELSE "rpcError",
                        isError |-> FALSE,
                        text |-> IF e = NotThrown THEN "tools" ELSE ErrorMessage(e),
                        afterError |-> bHadError]]
    /\ UNCHANGED unitFrame

\* process.on('SIGINT' | 'SIGTERM', shutdownHandler): the handler starts
\* closeClient() and awaits it
signal ==
    /\ bState = "serving"
    /\ \E sig \in {"SIGINT", "SIGTERM"} :
        unit' = [unit EXCEPT !.bSignal = sig, !.bState = "closing"]
    /\ UNCHANGED unitFrame

\* await closeClient(); process.exit(0). When close rejects, the await throws,
\* process.exit(0) is not reached and the handler's promise is rejected with
\* nobody to handle it: the process ends with status 1, or lives on where
\* unhandled rejections are handled or only warned about.
closeSettles ==
    /\ bState = "closing"
    /\ \/ unit' = [unit EXCEPT !.bClient = "closed", !.bState = "exited", !.bExit = 0]
       \/ unit' = [unit EXCEPT !.bClient = "closeFailed", !.bState = "exited", !.bExit = 1]
       \/ unit' = [unit EXCEPT !.bClient = "closeFailed", !.bState = "lingering"]
    /\ UNCHANGED unitFrame

\* await createMCPClient(...); await server.connect(transport) have returned
InitBridge ==
    /\ RestIdle
    /\ unit = [bState |-> "serving", bExit |-> -1, bClient |-> "open", bSignal |-> "",
               bReply |-> NoReply, bHadError |-> FALSE]

NextBridge ==
    \/ callTool
    \/ listTools
    \/ signal
    \/ closeSettles

SpecBridge == InitBridge /\ [][NextBridge]_vars

\* ------------------------------------- the desiredVersion option is passed
\* coordinateInstanceRole called with options.desiredVersion, any version,
\* and the default removeStaleLock; the manager's version getter is unchanged
InitDesired ==
    /\ file \in {FileAbsent, FileGarbage, FileRecord(DeadPid, "1.0.0")}
    /\ fdLinked = [p \in Procs |-> FALSE]
    /\ entry = [p \in Procs |-> "coordinate"]
    /\ desiredVersion \in [Procs -> Versions]
    /\ removeStaleLock = [p \in Procs |-> TRUE]
    /\ pc = [p \in Procs |-> "try1"]
    /\ sub = [p \in Procs |-> "call"]
    /\ role = [p \in Procs |-> "unknown"]
    /\ lock = [p \in Procs |-> NullLock]
    /\ inspectedLock = [p \in Procs |-> NullLock]
    /\ mainVersion = [p \in Procs |-> Null]
    /\ result = [p \in Procs |-> NoResult]
    /\ calls = [p \in Procs |-> <<>>]
    /\ answers = [p \in Procs |-> <<>>]
    /\ fileAtReturn = [p \in Procs |-> FileAbsent]
    /\ winners = {}
    /\ liveRemoved = {}
    /\ MgrInit
    /\ SrvInit
    /\ LibInit

SpecDesired == InitDesired /\ [][Next]_vars

\* --------------------------------------------- a second run in one process
\* the caller invokes coordinateInstanceRole again on the same InstanceManager
\* after a run that returned main: the locals start afresh, the manager's
\* role and lock stay as the first run left them
Reinvoke(p) ==
    /\ entry[p] = "coordinate"
    /\ pc[p] = "done"
    /\ result[p].status = "main"
    /\ entry' = [entry EXCEPT ![p] = "rerun"]
    /\ pc' = [pc EXCEPT ![p] = "try1"]
    /\ result' = [result EXCEPT ![p] = NoResult]
    /\ inspectedLock' = [inspectedLock EXCEPT ![p] = NullLock]
    /\ mainVersion' = [mainVersion EXCEPT ![p] = Null]
    /\ calls' = [calls EXCEPT ![p] = <<>>]
    /\ answers' = [answers EXCEPT ![p] = <<>>]
    /\ UNCHANGED <<libVars, mgrVars, srvVars, file, fdLinked, desiredVersion, removeStaleLock, sub,
                   role, lock, fileAtReturn, winners, liveRemoved>>

NextRerun ==
    \/ Next
    \/ \E p \in Procs : Reinvoke(p)

SpecRerun == Init /\ [][NextRerun]_vars

\* ------------------------------------------ a peer that accepts and is silent
\* http.get / http.request with {timeout: 2000}: the option makes the request
\* emit 'timeout'; the code listens to 'error' and to the response only, so
\* nothing destroys the request and the promise is never resolved
requestNeverAnswered(p) ==
    /\ pc[p] \in {"fetch", "transition"}
    /\ pc' = [pc EXCEPT ![p] = "pending"]
    /\ UNCHANGED <<libVars, mgrVars, srvVars, file, fdLinked, entry, desiredVersion, removeStaleLock,
                   sub, role, lock, inspectedLock, mainVersion, result, calls, answers,
                   fileAtReturn, winners, liveRemoved>>

\* the steps process p can take
StepOf(p) ==
    \/ tryBecomeMainOpen(p)
    \/ tryBecomeMainWrite(p)
    \/ readLockExists(p)
    \/ readLockRead(p)
    \/ removeLock(p)
    \/ fetchMainVersion(p)
    \/ requestMainTransition(p)
    \/ waitForPort(p)
    \/ requestNeverAnswered(p)

NextPending == \E p \in Procs : StepOf(p)

SpecPending == Init /\ [][NextPending]_vars

\* ------------------------------------------ startMcpServer, one process
\* One call of startMcpServer followed step by step: the command line and the
\* environment it starts with, the options parsed, the lock, the hooks, the
\* port, and what it writes to the two output streams on the way.

Flags == {"--stdio", "--http", "--no-kill"}

Argvs == UNION {[1 .. n -> Flags] : n \in 0 .. MaxArgs}

\* process.env.STDIO_MODE
EnvValues == {"unset", "0", "1"}

\* the hook that raises, if one does
RaisingHooks == {"none", "onLocalStart", "onBeforeStart"}

MCPFrame == "frame"

stArgv == unit.argv
stEnv == unit.env
stHook == unit.hook
stLockFile == unit.lockFile
stPc == unit.pc
cliOptions == unit.options
stLogTo == unit.logTo
stdout == unit.out
stderr == unit.err
shouldBeMain == unit.shouldBeMain
ensureCalled == unit.ensured
signalSent == unit.signalled
transport == unit.transport
failure == unit.failure

\* const options = { mode: config.defaultMode ?? 'http', killExisting: true }
DefaultOptions == [mode |-> "http", killExisting |-> TRUE]

\* one turn of the switch (arg)
ApplyArg(options, arg) ==
    IF arg = "--stdio" THEN [options EXCEPT !.mode = "stdio"]
    ELSE IF arg = "--http" THEN [options EXCEPT !.mode = "http"]
    ELSE IF arg = "--no-kill" THEN [options EXCEPT !.killExisting = FALSE]
    ELSE options

RECURSIVE FoldArgs(_, _)
FoldArgs(options, args) ==
    IF args = <<>> THEN options
    ELSE FoldArgs(ApplyArg(options, Head(args)), Tail(args))

\* parseCliArgs(process.argv.slice(2), config): the environment is not read
parseCliArgs(args, env) == FoldArgs(DefaultOptions, args)

\* console.log(msg): to stdout until console.log is reassigned
ConsoleLog(u, msg) ==
    IF u.logTo = "stdout" THEN [u EXCEPT !.out = @ \cup {msg}]
    ELSE [u EXCEPT !.err = @ \cup {msg}]

\* console.error(msg)
ConsoleError(u, msg) == [u EXCEPT !.err = @ \cup {msg}]

\* if (debug) { console.log = (...args) => originalError('[DEBUG]', ...args); ... }
RedirectLog(u) == [u EXCEPT !.logTo = "stderr"]

\* mutant: the secondary goes on as the primary does
AfterShouldBeMain_Always(won) == "announce"

\* if (!shouldBeMain) { ...; return }
AfterShouldBeMain(won) == IF won THEN "announce" ELSE "secondary"

\* const cliOptions = parseCliArgs(process.argv.slice(2), {...})
stParse ==
    /\ stPc = "parse"
    /\ unit' = [unit EXCEPT !.options = parseCliArgs(stArgv, stEnv), !.pc = "try"]
    /\ UNCHANGED unitFrame

\* const shouldBeMain = await instanceManager.tryBecomeMain()
stTryBecomeMain ==
    /\ stPc = "try"
    /\ LET won == stLockFile = "absent" IN
          unit' = [unit EXCEPT !.shouldBeMain = IF won THEN "true" ELSE "false",
                               !.lockFile = IF won THEN "mine" ELSE @,
                               !.pc = AfterShouldBeMain(won)]
    /\ UNCHANGED unitFrame

\* the !shouldBeMain branch: startStdioProxy or proxyManager.start, then return
stSecondary ==
    /\ stPc = "secondary"
    /\ unit' =
          IF cliOptions.mode = "stdio"
          THEN [ConsoleError(RedirectLog(ConsoleError(unit, "[PROXY MODE]")), "[DEBUG] Starting")
                   EXCEPT !.transport = "stdio", !.pc = "proxying"]
          ELSE [ConsoleLog(unit, "[PROXY MODE]")
                   EXCEPT !.transport = "http", !.pc = "proxying"]
    /\ UNCHANGED unitFrame

\* console.log(`[MAIN INSTANCE] Starting ...`)
stAnnounce ==
    /\ stPc = "announce"
    /\ unit' = [ConsoleLog(unit, "[MAIN INSTANCE]") EXCEPT !.pc = "localStart"]
    /\ UNCHANGED unitFrame

\* if (onLocalStart) await onLocalStart(cliOptions)
stOnLocalStart ==
    /\ stPc = "localStart"
    /\ unit' = IF stHook = "onLocalStart"
               THEN [unit EXCEPT !.failure = "onLocalStart", !.pc = "failed"]
               ELSE [unit EXCEPT !.pc = "ensure"]
    /\ UNCHANGED unitFrame

\* const portFree = await ensurePortAvailable(port, killExisting);
\* if (!portFree) throw ...    (what the callee does is left open here)
stEnsurePort ==
    /\ stPc = "ensure"
    /\ \E portFree \in BOOLEAN, killed \in BOOLEAN :
          unit' = [unit EXCEPT
                      !.ensured = TRUE,
                      !.signalled = killed,
                      !.failure = IF portFree THEN @
                                  ELSE IF cliOptions.killExisting THEN "UnableToFreePort"
                                  ELSE "PortInUseNoKill",
                      !.pc = IF portFree THEN "beforeStart" ELSE "failed"]
    /\ UNCHANGED unitFrame

\* if (onBeforeStart) await onBeforeStart(cliOptions)
stOnBeforeStart ==
    /\ stPc = "beforeStart"
    /\ unit' = IF stHook = "onBeforeStart"
               THEN [unit EXCEPT !.failure = "onBeforeStart", !.pc = "failed"]
               ELSE [unit EXCEPT !.pc = "serve"]
    /\ UNCHANGED unitFrame

\* if (cliOptions.mode === 'stdio') startStdioServer({..., debug: true})
\* else startHonoMcpServer({...})
stServe ==
    /\ stPc = "serve"
    /\ unit' =
          IF cliOptions.mode = "stdio"
          THEN [ConsoleError(RedirectLog(unit), "[DEBUG] Starting")
                   EXCEPT !.transport = "stdio", !.pc = "serving"]
          ELSE [unit EXCEPT !.transport = "http", !.pc = "serving"]
    /\ UNCHANGED unitFrame

\* once started: the application logs, and the stdio transport writes frames
stLog ==
    /\ stPc \in {"serving", "proxying"}
    /\ \/ unit' = ConsoleLog(unit, "app")
       \/ unit' = ConsoleError(unit, "app")
       \/ transport = "stdio" /\ unit' = [unit EXCEPT !.out = @ \cup {MCPFrame}]
    /\ UNCHANGED unitFrame

InitStart ==
    /\ RestIdle
    /\ \E a \in Argvs, e \in EnvValues, h \in RaisingHooks, l \in {"absent", "other"} :
          unit = [argv |-> a, env |-> e, hook |-> h, lockFile |-> l, pc |-> "parse",
                  options |-> DefaultOptions, logTo |-> "stdout", out |-> {}, err |-> {},
                  shouldBeMain |-> "", ensured |-> FALSE, signalled |-> FALSE,
                  transport |-> "", failure |-> ""]

NextStart ==
    \/ stParse
    \/ stTryBecomeMain
    \/ stSecondary
    \/ stAnnounce
    \/ stOnLocalStart
    \/ stEnsurePort
    \/ stOnBeforeStart
    \/ stServe
    \/ stLog

SpecStart == InitStart /\ [][NextStart]_vars

\* ------------------------------------------------- the shutdown handler
\* The function createShutdownHandler returns, the timers it sets and the
\* clock of the process; a timer's callback runs when its time has come.

Signals == {"SIGINT", "SIGTERM"}

\* the clock advances in quarters of the cleanup window
TickMs == CleanupMs \div 4

\* the clock is followed for two windows after the last signal can arrive
ClockEnd == 3 * CleanupMs

shClock == unit.clock
shTimers == unit.timers
shExit == unit.exit
shExitAt == unit.exitAt
shSignals == unit.signals
shOut == unit.out

\* mutant: the callback is scheduled with no delay
TimerDue_Immediate(now) == now

\* setTimeout(() => {...}, 1000) called at now
TimerDue(now) == now + CleanupMs

\* a timer whose time has come
Due == {t \in shTimers : t <= shClock}

\* handler(signal): log, then setTimeout
shutdownHandler ==
    /\ shExit = -1
    /\ Len(shSignals) < MaxSignals
    /\ \E sig \in Signals :
          unit' = [unit EXCEPT
                      !.signals = Append(@, [signal |-> sig, at |-> shClock]),
                      !.out = @ \cup {"received"},
                      !.timers = @ \cup {TimerDue(shClock)}]
    /\ UNCHANGED unitFrame

\* the timer's callback: log, then process.exit(0)
timerFires ==
    /\ shExit = -1
    /\ Due # {}
    /\ unit' = [unit EXCEPT !.out = @ \cup {"complete"}, !.exit = 0, !.exitAt = shClock]
    /\ UNCHANGED unitFrame

\* time passes while the process runs and no callback is waiting to run
tick ==
    /\ shExit = -1
    /\ Due = {}
    /\ shClock + TickMs <= ClockEnd
    /\ unit' = [unit EXCEPT !.clock = @ + TickMs]
    /\ UNCHANGED unitFrame

InitShutdown ==
    /\ RestIdle
    /\ unit = [clock |-> 0, timers |-> {}, exit |-> -1, exitAt |-> 0,
               signals |-> <<>>, out |-> {}]

NextShutdown ==
    \/ shutdownHandler
    \/ timerFires
    \/ tick

SpecShutdown == InitShutdown /\ [][NextShutdown]_vars

\* ------------------------------------------------------ the port manager
\* isPortInUse, killPortHolders, findAvailablePort and ensurePortAvailable as
\* section 4.1 describes them, over the processes that hold the ports of a
\* small range.  Each call runs to its return; between two calls the holders
\* are what the last call left.

\* the ports that may be held: one more than the largest budget
ProbedPorts == TestPort .. (TestPort + MaxRetries)

\* the foreign processes that may hold a port
HolderPids == {"12345", "67890"}

holders == unit.holders
portCall == unit.call

NoPortCall ==
    [name |-> "", port |-> 0, mayKill |-> FALSE, budget |-> 0, inUseBefore |-> FALSE,
     answer |-> FALSE, threw |-> FALSE, found |-> 0, enumerated |-> FALSE,
     signalled |-> {}, probed |-> <<>>]

\* lsof -i :p has output (no process holds a port outside the range)
isPortInUse(h, p) == p \in DOMAIN h /\ h[p] # {}

\* mutant: the holders are enumerated whether or not killing is allowed
MayEnumerate_Always(inUse, mayKill) == inUse

\* ensurePortAvailable goes on to killPortHolders only for a port in use with
\* mayKill
MayEnumerate(inUse, mayKill) == inUse /\ mayKill

\* mutant: the answer of killPortHolders is returned, with no second probe
EnsureAnswer_TrustKill(observed, inUseAfter) == observed

\* after the kill pass: return isPortInUse(p) == false
EnsureAnswer(observed, inUseAfter) == ~inUseAfter

\* mutant: one probe more than the budget
ProbeBudget_OneMore(maxRetries) == maxRetries + 1

\* the ports findAvailablePort probes: start, start+1, ... maxRetries of them
ProbeBudget(maxRetries) == maxRetries

\* the loop of findAvailablePort from its i-th probe on: [found, probed]
RECURSIVE FindFrom(_, _, _, _, _)
FindFrom(h, start, i, budget, probed) ==
    IF i >= budget THEN [found |-> 0, probed |-> probed]
    ELSE IF ~isPortInUse(h, start + i)
    THEN [found |-> start + i, probed |-> Append(probed, start + i)]
    ELSE FindFrom(h, start, i + 1, budget, Append(probed, start + i))

\* findAvailablePort(start, maxRetries): found = 0 stands for the error
findAvailablePort(start, maxRetries) ==
    /\ LET r == FindFrom(holders, start, 0, ProbeBudget(maxRetries), <<>>) IN
          unit' = [unit EXCEPT !.call =
                      [NoPortCall EXCEPT !.name = "findAvailablePort", !.port = start,
                                         !.budget = maxRetries, !.found = r.found,
                                         !.threw = (r.found = 0), !.probed = r.probed]]
    /\ UNCHANGED unitFrame

\* ensurePortAvailable(p, mayKill).  The kill pass: the enumeration gives the
\* holders or fails; every enumerated PID is signalled; the PIDs of survivors
\* outlive both signals
ensurePortAvailable(p, mayKill) ==
    /\ LET inUse == isPortInUse(holders, p) IN
          IF ~MayEnumerate(inUse, mayKill)
          THEN unit' = [unit EXCEPT !.call =
                           [NoPortCall EXCEPT !.name = "ensurePortAvailable", !.port = p,
                                              !.mayKill = mayKill, !.inUseBefore = inUse,
                                              !.answer = ~inUse, !.probed = <<p>>]]
          ELSE \E listed \in {{}, holders[p]} : \E survivors \in SUBSET holders[p] :
                  LET after == IF listed = {} THEN holders[p] ELSE survivors IN
                      unit' = [holders |-> [holders EXCEPT ![p] = after],
                               call |-> [NoPortCall EXCEPT
                                            !.name = "ensurePortAvailable", !.port = p,
                                            !.mayKill = mayKill, !.inUseBefore = inUse,
                                            !.enumerated = TRUE, !.signalled = listed,
                                            !.probed = <<p, p>>,
                                            !.answer = EnsureAnswer(listed # {}, after # {})]]
    /\ UNCHANGED unitFrame

InitPorts ==
    /\ RestIdle
    /\ \E h \in [ProbedPorts -> SUBSET HolderPids] :
          unit = [holders |-> h, call |-> NoPortCall]

NextPorts ==
    \/ \E start \in ProbedPorts, maxRetries \in 1 .. MaxRetries :
          findAvailablePort(start, maxRetries)
    \/ \E p \in ProbedPorts, mayKill \in BOOLEAN : ensurePortAvailable(p, mayKill)

SpecPorts == InitPorts /\ [][NextPorts]_vars

\* ---------------------------------------------------------------- history
Coordinators == {p \in Procs : entry[p] = "coordinate"}
Starters == {p \in Procs : entry[p] = "startMcpServer"}

HasCalled(p, name) == \E i \in 1 .. Len(calls[p]) : calls[p][i] = name

\* the answer of p's (only) call of name
Answered(p, name, answer) ==
    \E i \in 1 .. Len(calls[p]) : calls[p][i] = name /\ answers[p][i] = answer

\* the calls p issued after its requestMainTransition
AfterTransitionCalls(p) ==
    LET n == CHOOSE i \in 1 .. Len(calls[p]) : calls[p][i] = "requestMainTransition"
    IN  SubSeq(calls[p], n + 1, Len(calls[p]))

\* no other process has touched the lock path or called anything
Solo(p) == \A q \in Procs \ {p} : calls[q] = <<>> /\ sub[q] = "call"

\* a lock that names no live process, or does not parse
FileStale(f) ==
    \/ f.kind \in {"empty", "garbage"}
    \/ f.kind = "record" /\ ~(f.pid \in Procs)

\* ------------------------------------------------------------------ claims

\* C1: between two unlinks of the lock path at most one exclusive create
\* succeeds, whichever processes race: at most one tryBecomeMain wins per
\* generation of the file, and a process holding a descriptor to the file
\* at the path is that winner.
C1_AtMostOneWinner ==
    /\ Cardinality(winners) <= 1
    /\ \A p \in Procs : fdLinked[p] => winners = {p}
    /\ (file.kind = "record" /\ file.pid \in Procs) => winners = {file.pid}

C1_Witness ==
    \E p, q \in Procs :
        /\ p # q
        /\ winners = {p}
        /\ Answered(p, "tryBecomeMain", "true")
        /\ result[q].status = "proxy" /\ entry[q] = "startMcpServer"
        /\ fileAtReturn[q] = FileRecord(p, VersionOf(p))

\* C2 (as claimed): of the coordinators that found a stale lock and went to
\* reclaim it, with no transition accepted anywhere, never two end as primary.
C2_ExactlyOneReclaimer ==
    \A p, q \in Coordinators :
        (/\ p # q
         /\ \A r \in Procs : ~Answered(r, "requestMainTransition", "true")
         /\ HasCalled(p, "readLock") /\ IsLockStale(inspectedLock[p])
         /\ HasCalled(q, "readLock") /\ IsLockStale(inspectedLock[q]))
        => ~(result[p].status = "main" /\ result[q].status = "main")

\* C3 (as claimed): no process unlinks the well-formed lock of another live
\* process unless its own transition request was accepted before.
C3_LiveLockNeverRemoved == liveRemoved = {}

\* C4 (as claimed): a coordinator run that ends without error returns main or
\* proxy, and when it returns main the lock path holds this process's record
\* at that moment.
C4_PrimaryHoldsLock ==
    \A p \in Coordinators :
        (pc[p] = "done" /\ result[p].status # "error") =>
            /\ result[p].status \in {"main", "proxy"}
            /\ result[p].status = "main" =>
                  (fileAtReturn[p].kind = "record" /\ fileAtReturn[p].pid = p)

\* C5: alone on the lock path and with removeStaleLock, a coordinator that
\* found the path occupied and read a stale lock ends as primary after
\* tryBecomeMain, readLock, removeLock, tryBecomeMain: reason stale-lock when
\* readLock gave a record, lock-missing when it gave null.
C5_SoloReclaim ==
    \A p \in Coordinators :
        (/\ Solo(p)
         /\ pc[p] = "done"
         /\ Answered(p, "readLock", Null) \/ Answered(p, "readLock", "record")
         /\ IsLockStale(inspectedLock[p]))
        => /\ calls[p] = <<"tryBecomeMain", "readLock", "removeLock", "tryBecomeMain">>
           /\ result[p].status = "main"
           /\ Answered(p, "readLock", "record") => result[p].reason = "stale-lock"
           /\ Answered(p, "readLock", Null) => result[p].reason = "lock-missing"
           /\ file = FileRecord(p, VersionOf(p))

C5_Witness ==
    \E p \in Coordinators :
        /\ Solo(p)
        /\ pc[p] = "done"
        /\ Answered(p, "readLock", Null)
        /\ result[p] = MainResult("lock-missing", Null)

\* C6 (as claimed): startMcpServer never ends as a proxy of a stale lock: when
\* it goes to proxy mode the lock it lost against names a live process.
C6_StarterReclaimsStale ==
    \A p \in Starters :
        (pc[p] = "done" /\ result[p].status = "proxy") => ~FileStale(fileAtReturn[p])

\* C7: a coordinator that read the lock of a live process (or, without
\* removeStaleLock, did not inspect it) and whose version query answered the
\* desired version returns secondary(existing-main, that version), having
\* called only tryBecomeMain (failed), readLock and fetchMainVersion: neither
\* requestMainTransition nor removeLock.
C7_SameVersionSecondary ==
    \A p \in Coordinators :
        (/\ Answered(p, "fetchMainVersion", desiredVersion[p])
         /\ removeStaleLock[p] =>
               (Answered(p, "readLock", "record") /\ inspectedLock[p].pid \in Procs))
        => /\ pc[p] = "done"
           /\ result[p] = ProxyResult(desiredVersion[p])
           /\ calls[p] \in {<<"tryBecomeMain", "readLock", "fetchMainVersion">>,
                            <<"tryBecomeMain", "fetchMainVersion">>}
           /\ answers[p][1] = "false"
           /\ role[p] = "unknown"

C7_Witness ==
    \E p \in Coordinators : \E q \in Procs \ {p} :
        /\ result[p] = ProxyResult(desiredVersion[p])
        /\ Answered(p, "readLock", "record")
        /\ inspectedLock[p].pid = q
        /\ file = FileRecord(q, VersionOf(q))

\* C8: a coordinator whose version query answered null never commits to
\* secondary: it is about to call requestMainTransition or has called it.
C8_NullNeverSecondary ==
    \A p \in Coordinators :
        Answered(p, "fetchMainVersion", Null) =>
            /\ result[p].status # "proxy"
            /\ pc[p] = "transition" \/ HasCalled(p, "requestMainTransition")

C8_Witness ==
    \E p \in Coordinators :
        /\ Answered(p, "fetchMainVersion", Null)
        /\ HasCalled(p, "requestMainTransition")

\* C9: requestMainTransition answering false ends the run with the
\* TransitionDenied error and is the last call of the run (no waitForPort,
\* removeLock or tryBecomeMain follows); no other path raises that error.
C9_DeniedStops ==
    \A p \in Coordinators :
        /\ Answered(p, "requestMainTransition", "false") =>
              /\ pc[p] = "done"
              /\ result[p] = ErrorResult("TransitionDenied")
              /\ calls[p][Len(calls[p])] = "requestMainTransition"
        /\ result[p].reason = "TransitionDenied" =>
              Answered(p, "requestMainTransition", "false")

C9_Witness ==
    \E p \in Coordinators : \E q \in Procs \ {p} :
        /\ result[p] = ErrorResult("TransitionDenied")
        /\ fileAtReturn[p] = FileRecord(q, VersionOf(q))

\* C10: after an accepted transition the calls are waitForPort, removeLock,
\* tryBecomeMain in that order, whatever waitForPort answers; the run ends as
\* primary(version-transition, previousVersion = fetched version) iff that
\* tryBecomeMain answers true, and with TransitionRaceLost iff it answers false.
C10_TransitionSequence ==
    \A p \in Coordinators :
        Answered(p, "requestMainTransition", "true") =>
            LET after == AfterTransitionCalls(p)
                full == <<"waitForPort", "removeLock", "tryBecomeMain">>
                last == answers[p][Len(calls[p])]
            IN  /\ Len(after) <= 3
                /\ after = SubSeq(full, 1, Len(after))
                /\ pc[p] = "done" <=> Len(after) = 3
                /\ pc[p] = "done" =>
                      /\ last = "true" <=>
                            result[p] = MainResult("version-transition", mainVersion[p])
                      /\ last = "false" <=> result[p] = ErrorResult("TransitionRaceLost")
                      /\ Answered(p, "fetchMainVersion", mainVersion[p])

C10_Witness ==
    \E p \in Coordinators :
        /\ Answered(p, "waitForPort", "false")
        /\ result[p].status = "main" /\ result[p].reason = "version-transition"
        /\ result[p].version \in Versions

\* C11 (as claimed): a second coordinateInstanceRole run in a process whose
\* first run returned primary also returns primary.
C11_SecondRunPrimary ==
    \A p \in Procs :
        (entry[p] = "rerun" /\ pc[p] = "done") => result[p].status = "main"

\* C12 (as claimed): every control-plane call completes, so a coordinator run
\* that has not returned or thrown always has a next step.
C12_CallsComplete ==
    \A p \in Procs : pc[p] # "done" => ENABLED StepOf(p)

C18_FieldsFollowRole ==
    \A p \in Procs :
        /\ ~lock[p].isNull => role[p] = "main"
        /\ proxyPort[p] # 0 => role[p] = "proxy"

\* C19 (as claimed): while the role is MAIN the lock file holds this process's
\* record, and after the owner's removeLock or startProxy the role is not MAIN.
C19_MainOwnsLockFile ==
    \A p \in Procs :
        /\ role[p] = "main" => (file.kind = "record" /\ file.pid = p)
        /\ lastCall[p].name \in {"removeLock", "startProxy"} => role[p] # "main"

C13_ControlReleasesLock ==
    \A p \in Procs :
        (/\ stage[p] = "serving"
         /\ served[p].method = "POST"
         /\ served[p].path \in {"/__shutdown", "/__transition"})
        => /\ served[p].status = 200
           /\ lockFiles[LockPathOf(p)] # FileRecord(p, VersionOf(p))

\* C14 (as claimed): fetchMainVersion answered by a primary started through
\* startMcpServer with --local returns that primary's server version.
C14_VersionServed ==
    \A q \in Procs :
        (/\ got[q].call = "fetchMainVersion"
         /\ got[q].from \in Procs \ {q}
         /\ opts[got[q].from].local)
        => got[q].answer = VersionOf(got[q].from)

\* C15 (as claimed): a process committed to the secondary role in HTTP mode
\* runs its proxy on a kernel-assigned port other than the primary's, with the
\* primary's port as target.
C15_ProxyOnOtherPort ==
    \A p \in Procs :
        (opts[p].mode = "http" /\ stage[p] \in {"proxy", "proxyCrashed"}) =>
            /\ stage[p] = "proxy"
            /\ proxy[p].listen = EphemeralPort(p)
            /\ proxy[p].target = opts[p].port
            /\ proxy[p].listen # proxy[p].target

\* C17 (as claimed): the default lock file of port p carries p in its name,
\* so a starter is never refused by the lock of a starter on another port.
C17_PortsDoNotContend ==
    \A q \in Procs :
        /\ stage[q] # "start" => LockPathOf(q) = opts[q].port
        /\ blockedBy[q] \in Procs => opts[blockedBy[q]].port = opts[q].port

\* C21: readLock never throws; it returns null for an absent file, an empty
\* file, text that is not JSON and JSON with a missing or ill-typed pid,
\* version or timestamp, and the record exactly when all three are well-typed.
C21_ReadLockTotal ==
    ret.op = "readLock" =>
        /\ ~ret.threw
        /\ ~ret.value.isNull <=>
              /\ ret.before.kind = "object"
              /\ ret.before.members["pid"].t = "number"
              /\ ret.before.members["version"].t = "string"
              /\ ret.before.members["timestamp"].t = "number"
        /\ ~ret.value.isNull => \A k \in Keys : ret.value.rec[k] = ret.before.members[k]

C21_Witness ==
    /\ ret.op = "readLock"
    /\ ret.before.kind = "object"
    /\ ret.before.members["pid"].t = "number"
    /\ ret.before.members["version"].t = "string"
    /\ ret.before.members["timestamp"] = Omitted
    /\ ret.value.isNull
    /\ ~ret.threw

\* C22: readLock right after a writeLock or a successful tryBecomeMain that
\* wrote a well-formed record returns a record equal to the one written.
C22_WriteReadRoundTrip ==
    (/\ ret.op = "readLock"
     /\ ret.prev \in {"writeLock", "tryBecomeMain"}
     /\ ~wrote.isNull
     /\ WellTyped(wrote.rec))
    => /\ ~ret.threw
       /\ ret.value = wrote

C22_Witness ==
    /\ ret.op = "readLock"
    /\ ret.prev = "writeLock"
    /\ ~wrote.isNull
    /\ wrote.rec["pid"] = Num(me.pid)
    /\ wrote.rec["version"] = Str("1.0.0")
    /\ ret.value = wrote

\* C23 (as claimed): removeLock on an absent lock, or called twice in a row,
\* raises no error and leaves the lock path empty.
C23_RemoveLeavesAbsent ==
    (ret.op = "removeLock" /\ (ret.before.kind = "absent" \/ ret.prev = "removeLock"))
    => /\ ~ret.threw
       /\ disk.kind = "absent"

\* C23 (amended): removeLock never raises; on an absent lock, and as the second
\* of two calls in a row, it changes nothing; it leaves the path empty whenever
\* the unlink can succeed (a file in a writable directory) and leaves in place
\* what it cannot unlink.
C23_RemoveIdempotent ==
    ret.op = "removeLock" =>
        /\ ~ret.threw
        /\ (ret.before.kind = "absent" \/ ret.prev = "removeLock") => disk = ret.before
        /\ CanUnlink(ret.before, dirWritable) \/ ret.before.kind = "absent"
              => disk.kind = "absent"
        /\ ~CanUnlink(ret.before, dirWritable) => disk = ret.before

C23_Witness ==
    /\ ret.op = "removeLock"
    /\ ret.prev = "removeLock"
    /\ ret.before.kind = "object"
    /\ ~dirWritable
    /\ disk = ret.before
    /\ ~ret.threw

\* C24 (as claimed): waitForPort(0) returns true when the port is free and
\* false when it is held.
C24_ZeroTimeoutProbes ==
    (timeoutMs = [set |-> TRUE, ms |-> 0] /\ wpc = "done") =>
        /\ ~everHeld => waitResult = "true"
        /\ portHeld => waitResult = "false"

\* C25: waitForPort(t) makes bind attempts at least 300 ms apart, returns true
\* at the first attempt that succeeds, returns false when none succeeded and
\* the elapsed time has reached t, and makes a bounded number of attempts
\* without ever being stuck.
C25_PollsUntilTimeout ==
    /\ gapsOk
    /\ successes <= 1
    /\ waitResult = "true" <=> successes = 1
    /\ successes = 1 => wpc = "done"
    /\ waitResult = "false" <=>
          (wpc = "done" /\ successes = 0)
    /\ waitResult = "false" => clock - waitStart >= EffectiveTimeout(timeoutMs)
    /\ attempts > 0 => (attempts - 1) * PollMs < EffectiveTimeout(timeoutMs)
    /\ wpc # "done" => ENABLED (wCheck \/ wBind \/ wSleep)

C25_Witness ==
    /\ wpc = "done"
    /\ waitResult = "true"
    /\ attempts = 3
    /\ timeoutMs = [set |-> TRUE, ms |-> 3 * PollMs]

\* C26 (as claimed): ProxyManager start and stop are idempotent: after a start,
\* also one on a started manager, exactly one socket listens and the manager
\* owns it; after a stop, also a repeated or a first one, nothing listens and
\* port is null.
C26_StartStopIdempotent ==
    /\ pmLast.op = "start" => (PortsInUse = {pmServer} /\ PortGetter # 0)
    /\ pmLast.op = "stop" => (PortsInUse = {} /\ PortGetter = 0)
    /\ pmState = "ok"

\* C27 (as claimed): the request sent upstream has the method, path, query
\* string and body of the request received, its headers plus the X-Proxy-*
\* headers of the metadata, and goes to 127.0.0.1 at the primary's port.
C27_ForwardPreserves ==
    exchange.kind = "done" =>
        /\ exchange.sent.method = exchange.req.method
        /\ exchange.sent.path = exchange.req.path
        /\ exchange.sent.query = exchange.req.query
        /\ exchange.sent.body = exchange.req.body
        /\ exchange.sent.headers
              = exchange.req.headers \cup ProxyHeaders(exchange.md, DefaultPort)
        /\ exchange.sent.host = "127.0.0.1"
        /\ exchange.sent.port = DefaultPort

\* C28: a request made while nothing listens on the target port is answered
\* 502 with error 'Proxy error'; a request leaves the proxy's sockets and the
\* manager as they were; and a request made while the primary listens gets the
\* primary's answer, also after earlier 502 answers.
C28_BadGatewayAndRecovery ==
    /\ [](exchange.kind = "done" =>
            /\ ~exchange.up =>
                  (exchange.resp.status = 502 /\ exchange.resp.error = "Proxy error")
            /\ exchange.up => exchange.resp = UpstreamResponse(exchange.sent))
    /\ [][(exchange' # exchange \/ had502' # had502) =>
            (listeners' = listeners /\ pmState' = pmState /\ pmServer' = pmServer)]_vars

C28_Witness ==
    /\ exchange.kind = "done"
    /\ exchange.up
    /\ exchange.after502
    /\ exchange.resp.status = 200

\* C29: in the stdio bridge a call-tool request whose upstream call throws is
\* answered with a tool result with isError = true and the text
\* 'Proxy error: <message>'; answering it leaves the bridge serving, and the
\* requests after it are answered as before.
C29_ToolErrorResult ==
    /\ [](bReply.request = "call-tool" =>
            /\ bReply.thrown # NotThrown =>
                  /\ bReply.kind = "toolResult"
                  /\ bReply.isError
                  /\ bReply.text = "Proxy error: " \o bReply.thrown.text
            /\ bReply.thrown = NotThrown =>
                  (bReply.kind = "toolResult" /\ bReply.text = bReply.tool))
    /\ [][bReply' # bReply =>
            (bState' = "serving" /\ bClient' = "open" /\ ENABLED callTool)]_vars

C29_Witness ==
    /\ bReply.request = "call-tool"
    /\ bReply.afterError
    /\ bReply.thrown = NotThrown
    /\ bReply.kind = "toolResult"
    /\ ~bReply.isError

\* C30 (as claimed): once the handler of SIGINT or SIGTERM has finished
\* waiting for the upstream client's close, the process has exited with
\* status 0, whether the close succeeded or failed.
C30_ExitZeroAfterSignal ==
    (bSignal # "" /\ bState # "closing") =>
        /\ bState = "exited"
        /\ bExit = 0


\* C37 (as claimed): the lock of a live process is never seen half-made: no
\* readLock reads the file at the lock path while the process that created it
\* is still between openSync('wx') and writeFileSync, and no removeLock
\* unlinks it in that window.
C37_AcquisitionAtomicForReaders ==
    [][\A q \in Procs :
          (readLockRead(q) \/ removeLock(q)) =>
              ~(\E p \in Procs \ {q} :
                   fdLinked[p] /\ sub[p] = "opened" /\ file = FileEmpty)]_vars


\* C38: a tryBecomeMain call that answers false or raises leaves this.role
\* and this.lock as they were and leaves what was at the lock path as it was
\* (a raise after the exclusive create leaves the new, empty file where there
\* was nothing); with a directory at the lock path the call does not answer
\* true and the process is not MAIN.
C38_FailedTryLeavesState ==
    [][\A p \in Procs :
          mTryBecomeMain(p) =>
              /\ lastCall'[p].answer # "true" =>
                    /\ role'[p] = role[p]
                    /\ lock'[p] = lock[p]
                    /\ file.kind # "absent" => file' = file
              /\ file.kind = "dir" =>
                    /\ lastCall'[p].answer # "true"
                    /\ role'[p] # "main"
                    /\ file' = file]_vars

C38_Witness ==
    \E p, q \in Procs :
        /\ p # q
        /\ file = FileRecord(q, VersionOf(q))
        /\ role[q] = "main"
        /\ role[p] = "main"
        /\ lock[p] = LockRec(p, VersionOf(p))
        /\ lastCall[p] = [name |-> "tryBecomeMain", answer |-> "false", saw |-> "record"]


\* C31 (as claimed): in stdio mode nothing but MCP frames is ever written to
\* stdout, by a primary and by a secondary alike, from process start on.
C31_StdoutReserved ==
    (stPc # "parse" /\ cliOptions.mode = "stdio") => stdout \subseteq {MCPFrame}

\* C36 (as claimed): with STDIO_MODE = '1' the server runs on the stdio
\* transport, whatever flags the command line has.
C36_EnvForcesStdio ==
    (stEnv = "1" /\ stPc \in {"serving", "proxying"}) => transport = "stdio"

\* C39 (as claimed): when startMcpServer fails after tryBecomeMain answered
\* true, the lock file does not record this process at the failure.
C39_FailedStartReleasesLock ==
    (stPc = "failed" /\ shouldBeMain = "true") => stLockFile # "mine"

\* C40: a process whose tryBecomeMain answered false never calls
\* ensurePortAvailable and sends no termination signal; a signal is sent only
\* by a process whose tryBecomeMain answered true, inside that call.
C40_OnlyPrimaryFreesPort ==
    /\ shouldBeMain = "false" => (~ensureCalled /\ ~signalSent)
    /\ signalSent => (shouldBeMain = "true" /\ ensureCalled)
    /\ ensureCalled => stLockFile = "mine"

C40_Witness ==
    /\ shouldBeMain = "false"
    /\ stPc = "proxying"
    /\ stLockFile = "other"
    /\ "app" \in stderr
    /\ ~ensureCalled


\* C32: once the shutdown handler was invoked, the process exits with status
\* 0 at the moment the 1000 ms counted from the first invocation have passed:
\* it has not exited before, it exits then (the callback is ready to run and
\* the clock does not pass that moment with the process alive), and later
\* invocations inside the window do not move the exit.
C32_ExitWhenWindowElapsed ==
    /\ shExit \in {-1, 0}
    /\ shSignals = <<>> => shExit = -1
    /\ shSignals # <<>> =>
          LET first == shSignals[1].at IN
              /\ shExit = 0 => (shExitAt = first + CleanupMs /\ "complete" \in shOut)
              /\ shExit = -1 => shClock <= first + CleanupMs
              /\ (shExit = -1 /\ shClock = first + CleanupMs) =>
                    (ENABLED timerFires /\ ~ENABLED tick)
              /\ (shExit = -1 /\ shClock < first + CleanupMs) => ~ENABLED timerFires

C32_Witness ==
    /\ shExit = 0
    /\ Len(shSignals) = 2
    /\ shSignals[1].at = TickMs
    /\ shSignals[2].at = 3 * TickMs
    /\ shExitAt = TickMs + CleanupMs


\* C33: ensurePortAvailable(p, false) on a port in use answers false, has
\* enumerated no holder and signalled no process, and every port is held by
\* the processes that held it before.
C33_NoKillNoSideEffects ==
    /\ [](((portCall.name = "ensurePortAvailable" /\ ~portCall.mayKill
              /\ portCall.inUseBefore) =>
             /\ portCall.answer = FALSE
             /\ ~portCall.enumerated
             /\ portCall.signalled = {}
             /\ portCall.probed = <<portCall.port>>
             /\ isPortInUse(holders, portCall.port)))
    /\ [][(portCall'.name = "ensurePortAvailable" /\ ~portCall'.mayKill) =>
             holders' = holders]_vars

C33_Witness ==
    /\ portCall.name = "ensurePortAvailable"
    /\ ~portCall.mayKill
    /\ portCall.inUseBefore
    /\ portCall.answer = FALSE
    /\ holders[portCall.port] = HolderPids

\* C34: ensurePortAvailable(p, true) answers true only with the port free at
\* the return; it answers false when the port is still held after the kill
\* pass and when the enumeration gave no PID for a port in use.
C34_TrueOnlyWhenFree ==
    (portCall.name = "ensurePortAvailable" /\ portCall.mayKill) =>
        /\ portCall.answer = TRUE => ~isPortInUse(holders, portCall.port)
        /\ isPortInUse(holders, portCall.port) => portCall.answer = FALSE
        /\ (portCall.inUseBefore /\ portCall.signalled = {}) => portCall.answer = FALSE

C34_Witness ==
    /\ portCall.name = "ensurePortAvailable"
    /\ portCall.mayKill
    /\ portCall.inUseBefore
    /\ portCall.signalled = HolderPids
    /\ portCall.answer = TRUE
    /\ holders[portCall.port] = {}

\* C35: findAvailablePort(start, maxRetries) gives the smallest port of
\* start .. start+maxRetries-1 that is not in use, start itself when it is
\* free, and raises exactly when all of them are in use.
C35_FirstFreePort ==
    portCall.name = "findAvailablePort" =>
        LET start == portCall.port
            range == start .. (start + portCall.budget - 1)
            free == {q \in range : ~isPortInUse(holders, q)}
        IN  /\ portCall.threw <=> free = {}
            /\ free # {} =>
                  /\ portCall.found \in free
                  /\ \A q \in free : portCall.found <= q
            /\ ~isPortInUse(holders, start) => portCall.found = start
            /\ portCall.threw => Len(portCall.probed) = portCall.budget

C35_Witness ==
    /\ portCall.name = "findAvailablePort"
    /\ portCall.budget = MaxRetries
    /\ portCall.port = TestPort
    /\ portCall.found = TestPort + MaxRetries - 1
    /\ portCall.probed = [k \in 1 .. MaxRetries |-> TestPort + k - 1]

====
